---- MODULE Spec2Model ----
(***************************************************************************)
(* Import reconciliation engine of auto_fix_imports.py.                    *)
(*                                                                         *)
(* Representation of text.  A text is the list  content.split('\n')  of    *)
(* its lines, so it always has at least one line and '\n'.join is its      *)
(* inverse.  A line is the sequence of its lexical tokens: one space " ",  *)
(* one punctuation mark, a word (identifier, keyword, number), or a path   *)
(* (the text of a module path or of the interpreter path, which holds no   *)
(* space, comma, quote, brace or semicolon).  No pattern of the program    *)
(* can match a part of such a token without matching all of it: lexing is  *)
(* maximal, so \b holds on both sides of every word token, and the paths   *)
(* used here hold no capitalised word and no hook name.  Python's regular  *)
(* expressions are therefore transcribed token for token into the small    *)
(* regular-expression terms below.                                         *)
(***************************************************************************)
EXTENDS Integers, Sequences, FiniteSets, TLC

VARIABLES
  iconsFile,                      \* lucide_icons.json beside the script
  LUCIDE_ICONS,                   \* module global set at import time
  file,                           \* text of the file at file_path
  content,                        \* process_file: text read from the file
  used_components,                \* process_file: result of the usage scan
  grouped_components_by_source,   \* process_file: used symbols by module
  existing_imports_map,           \* update_imports: named imports parsed from the text
  import_block_ranges,            \* update_imports: line ranges of the parsed imports
  updated_content,                \* process_file: result of update_imports
  wrote,                          \* process_file: path.write_text was called
  file_exists,                    \* path.exists()
  runs,                           \* completed calls of process_file
  component_name,                 \* argument of a direct table lookup
  source_found,                   \* result of that lookup
  pc,                             \* parse_existing_imports run line by line: where it is
  outer_i,                        \* parse_existing_imports: i of the outer loop
  inner_j,                        \* parse_existing_imports: j of the inner loop
  session_state,                  \* main.py: st.session_state of the dashboard
  processes,                      \* main.py: the subprocesses started so far
  form_disabled,                  \* main.py: the command form as last rendered
  site,                           \* gen_site_logic.py: process_generated_site, its locals
  results,                        \* gen_site_logic.py: the results dictionary
  pipeline,                       \* llmaaj.py: generate_pipeline, its locals
  tasks                           \* llmaaj.py: the process_with_semaphore coroutines

fileVars == <<iconsFile, LUCIDE_ICONS, file, file_exists, content, used_components,
              grouped_components_by_source, existing_imports_map, import_block_ranges,
              updated_content, wrote, runs, component_name, source_found, pc, outer_i,
              inner_j>>
dashVars == <<session_state, processes, form_disabled>>
siteVars == <<site, results>>
genVars == <<pipeline, tasks>>
otherVars == <<dashVars, siteVars, genVars>>
vars == <<fileVars, otherVars>>

\* Python's None.
None == "None"

\* st.session_state after the module's initialisation.  A text is the list
\* of the pieces it was built from; an optional value (a process handle, a
\* key that may be missing) is the empty list or a list of one.
SessionInit ==
  [test_running |-> FALSE,
   last_output |-> <<"No commands run yet...">>,
   test_results |-> <<>>,
   command_history |-> <<>>,
   live_output |-> <<>>,
   output_queue |-> <<>>,
   current_process |-> <<>>,
   command_just_completed |-> <<>>]

\* The dashboard before its first script run.
DashIdle ==
  /\ session_state = SessionInit
  /\ processes = <<>>
  /\ form_disabled = FALSE

\* The results dictionary process_generated_site starts from (606-610).
ResultsInit ==
  [build_success |-> FALSE, npm_install_success |-> FALSE, cna_success |-> FALSE,
   shadcn_add_success |-> FALSE, error_messages |-> <<>>, site_path |-> <<>>,
   command_outputs |-> <<>>]

\* process_generated_site before it is called with the <Edit> blocks
\* edit_blocks: nothing written, no build run.
SiteBefore(edit_blocks) ==
  [pc |-> "start", project_final_path |-> <<>>, edit_blocks |-> edit_blocks,
   written |-> {}, build_returncode |-> <<>>]

SiteIdle ==
  /\ site = SiteBefore(<<>>)
  /\ results = ResultsInit

\* generate_pipeline before it is called: no semaphore yet, no coroutine
\* created, nothing gathered.
PipelineBefore(max_retries, max_concurrent, questions_df) ==
  [pc |-> "start", max_retries |-> max_retries, max_concurrent |-> max_concurrent,
   questions_df |-> questions_df, semaphore |-> 0, completed_results |-> <<>>]

GenIdle ==
  /\ pipeline = PipelineBefore(0, 1, <<>>)
  /\ tasks = <<>>

\* The state of the parts of the repository a specification leaves alone.
OtherIdle == DashIdle /\ SiteIdle /\ GenIdle

(***************************************************************************)
(* Symbol tables                                                           *)
(***************************************************************************)
REACT_COMPONENTS ==
  <<
    "Fragment", "Component", "PureComponent", "memo", "forwardRef", "createContext",
    "useContext", "useState", "useEffect", "useReducer", "useCallback", "useMemo", "useRef",
    "useImperativeHandle", "useLayoutEffect", "useDebugValue", "createRef", "isValidElement",
    "Children", "cloneElement", "createElement", "createFactory", "lazy", "Suspense",
    "StrictMode"
  >>

SHADCN_COMPONENTS ==
  "Accordion" :> "accordion" @@
  "AccordionContent" :> "accordion" @@
  "AccordionItem" :> "accordion" @@
  "AccordionTrigger" :> "accordion" @@
  "Alert" :> "alert" @@
  "AlertDescription" :> "alert" @@
  "AlertTitle" :> "alert" @@
  "AlertDialog" :> "alert-dialog" @@
  "AlertDialogAction" :> "alert-dialog" @@
  "AlertDialogCancel" :> "alert-dialog" @@
  "AlertDialogContent" :> "alert-dialog" @@
  "AlertDialogDescription" :> "alert-dialog" @@
  "AlertDialogFooter" :> "alert-dialog" @@
  "AlertDialogHeader" :> "alert-dialog" @@
  "AlertDialogTitle" :> "alert-dialog" @@
  "AlertDialogTrigger" :> "alert-dialog" @@
  "AspectRatio" :> "aspect-ratio" @@
  "Avatar" :> "avatar" @@
  "AvatarFallback" :> "avatar" @@
  "AvatarImage" :> "avatar" @@
  "Badge" :> "badge" @@
  "Button" :> "button" @@
  "Calendar" :> "calendar" @@
  "Card" :> "card" @@
  "CardContent" :> "card" @@
  "CardDescription" :> "card" @@
  "CardFooter" :> "card" @@
  "CardHeader" :> "card" @@
  "CardTitle" :> "card" @@
  "Carousel" :> "carousel" @@
  "CarouselContent" :> "carousel" @@
  "CarouselItem" :> "carousel" @@
  "CarouselNext" :> "carousel" @@
  "CarouselPrevious" :> "carousel" @@
  "Checkbox" :> "checkbox" @@
  "Collapsible" :> "collapsible" @@
  "CollapsibleContent" :> "collapsible" @@
  "CollapsibleTrigger" :> "collapsible" @@
  "Command" :> "command" @@
  "CommandDialog" :> "command" @@
  "CommandEmpty" :> "command" @@
  "CommandGroup" :> "command" @@
  "CommandInput" :> "command" @@
  "CommandItem" :> "command" @@
  "CommandList" :> "command" @@
  "CommandSeparator" :> "command" @@
  "CommandShortcut" :> "command" @@
  "ContextMenu" :> "context-menu" @@
  "ContextMenuCheckboxItem" :> "context-menu" @@
  "ContextMenuContent" :> "context-menu" @@
  "ContextMenuItem" :> "context-menu" @@
  "ContextMenuLabel" :> "context-menu" @@
  "ContextMenuRadioGroup" :> "context-menu" @@
  "ContextMenuRadioItem" :> "context-menu" @@
  "ContextMenuSeparator" :> "context-menu" @@
  "ContextMenuShortcut" :> "context-menu" @@
  "ContextMenuSub" :> "context-menu" @@
  "ContextMenuSubContent" :> "context-menu" @@
  "ContextMenuSubTrigger" :> "context-menu" @@
  "ContextMenuTrigger" :> "context-menu" @@
  "Dialog" :> "dialog" @@
  "DialogContent" :> "dialog" @@
  "DialogDescription" :> "dialog" @@
  "DialogFooter" :> "dialog" @@
  "DialogHeader" :> "dialog" @@
  "DialogTitle" :> "dialog" @@
  "DialogTrigger" :> "dialog" @@
  "Drawer" :> "drawer" @@
  "DrawerClose" :> "drawer" @@
  "DrawerContent" :> "drawer" @@
  "DrawerDescription" :> "drawer" @@
  "DrawerFooter" :> "drawer" @@
  "DrawerHeader" :> "drawer" @@
  "DrawerTitle" :> "drawer" @@
  "DrawerTrigger" :> "drawer" @@
  "DropdownMenu" :> "dropdown-menu" @@
  "DropdownMenuCheckboxItem" :> "dropdown-menu" @@
  "DropdownMenuContent" :> "dropdown-menu" @@
  "DropdownMenuGroup" :> "dropdown-menu" @@
  "DropdownMenuItem" :> "dropdown-menu" @@
  "DropdownMenuLabel" :> "dropdown-menu" @@
  "DropdownMenuPortal" :> "dropdown-menu" @@
  "DropdownMenuRadioGroup" :> "dropdown-menu" @@
  "DropdownMenuRadioItem" :> "dropdown-menu" @@
  "DropdownMenuSeparator" :> "dropdown-menu" @@
  "DropdownMenuShortcut" :> "dropdown-menu" @@
  "DropdownMenuSub" :> "dropdown-menu" @@
  "DropdownMenuSubContent" :> "dropdown-menu" @@
  "DropdownMenuSubTrigger" :> "dropdown-menu" @@
  "DropdownMenuTrigger" :> "dropdown-menu" @@
  "Form" :> "form" @@
  "FormControl" :> "form" @@
  "FormDescription" :> "form" @@
  "FormField" :> "form" @@
  "FormItem" :> "form" @@
  "FormLabel" :> "form" @@
  "FormMessage" :> "form" @@
  "HoverCard" :> "hover-card" @@
  "HoverCardContent" :> "hover-card" @@
  "HoverCardTrigger" :> "hover-card" @@
  "Input" :> "input" @@
  "Label" :> "label" @@
  "Menubar" :> "menubar" @@
  "MenubarCheckboxItem" :> "menubar" @@
  "MenubarContent" :> "menubar" @@
  "MenubarItem" :> "menubar" @@
  "MenubarLabel" :> "menubar" @@
  "MenubarMenu" :> "menubar" @@
  "MenubarRadioGroup" :> "menubar" @@
  "MenubarRadioItem" :> "menubar" @@
  "MenubarSeparator" :> "menubar" @@
  "MenubarShortcut" :> "menubar" @@
  "MenubarSub" :> "menubar" @@
  "MenubarSubContent" :> "menubar" @@
  "MenubarSubTrigger" :> "menubar" @@
  "MenubarTrigger" :> "menubar" @@
  "NavigationMenu" :> "navigation-menu" @@
  "NavigationMenuContent" :> "navigation-menu" @@
  "NavigationMenuIndicator" :> "navigation-menu" @@
  "NavigationMenuItem" :> "navigation-menu" @@
  "NavigationMenuLink" :> "navigation-menu" @@
  "NavigationMenuList" :> "navigation-menu" @@
  "NavigationMenuTrigger" :> "navigation-menu" @@
  "NavigationMenuViewport" :> "navigation-menu" @@
  "Pagination" :> "pagination" @@
  "PaginationContent" :> "pagination" @@
  "PaginationEllipsis" :> "pagination" @@
  "PaginationItem" :> "pagination" @@
  "PaginationLink" :> "pagination" @@
  "PaginationNext" :> "pagination" @@
  "PaginationPrevious" :> "pagination" @@
  "Popover" :> "popover" @@
  "PopoverContent" :> "popover" @@
  "PopoverTrigger" :> "popover" @@
  "Progress" :> "progress" @@
  "RadioGroup" :> "radio-group" @@
  "RadioGroupItem" :> "radio-group" @@
  "ScrollArea" :> "scroll-area" @@
  "ScrollBar" :> "scroll-area" @@
  "Select" :> "select" @@
  "SelectContent" :> "select" @@
  "SelectGroup" :> "select" @@
  "SelectItem" :> "select" @@
  "SelectLabel" :> "select" @@
  "SelectSeparator" :> "select" @@
  "SelectTrigger" :> "select" @@
  "SelectValue" :> "select" @@
  "Separator" :> "separator" @@
  "Sheet" :> "sheet" @@
  "SheetClose" :> "sheet" @@
  "SheetContent" :> "sheet" @@
  "SheetDescription" :> "sheet" @@
  "SheetFooter" :> "sheet" @@
  "SheetHeader" :> "sheet" @@
  "SheetTitle" :> "sheet" @@
  "SheetTrigger" :> "sheet" @@
  "Skeleton" :> "skeleton" @@
  "Slider" :> "slider" @@
  "Switch" :> "switch" @@
  "Table" :> "table" @@
  "TableBody" :> "table" @@
  "TableCaption" :> "table" @@
  "TableCell" :> "table" @@
  "TableFooter" :> "table" @@
  "TableHead" :> "table" @@
  "TableHeader" :> "table" @@
  "TableRow" :> "table" @@
  "Tabs" :> "tabs" @@
  "TabsContent" :> "tabs" @@
  "TabsList" :> "tabs" @@
  "TabsTrigger" :> "tabs" @@
  "Textarea" :> "textarea" @@
  "Toast" :> "toast" @@
  "ToastAction" :> "toast" @@
  "ToastClose" :> "toast" @@
  "ToastDescription" :> "toast" @@
  "ToastProvider" :> "toast" @@
  "ToastTitle" :> "toast" @@
  "ToastViewport" :> "toast" @@
  "Toggle" :> "toggle" @@
  "ToggleGroup" :> "toggle-group" @@
  "ToggleGroupItem" :> "toggle-group" @@
  "Tooltip" :> "tooltip" @@
  "TooltipContent" :> "tooltip" @@
  "TooltipProvider" :> "tooltip" @@
  "TooltipTrigger" :> "tooltip"

NEXTJS_IMPORTS ==
  <<
    <<"next/router", <<"useRouter", "withRouter", "Router">>>>,
    <<"next/head", <<"Head">>>>,
    <<"next/image", <<"Image">>>>,
    <<"next/link", <<"Link">>>>,
    <<"next/script", <<"Script">>>>,
    <<"next/navigation", <<"usePathname", "useRouter", "useSearchParams", "redirect">>>>,
    <<"next/server", <<"NextRequest", "NextResponse">>>>
  >>

\* The built-in icon list load_lucide_icons falls back to.
FALLBACK_ICONS ==
  <<"Sun", "Moon", "Star", "Heart", "User", "Search", "Menu", "X", "Camera", "Bell",
    "Check", "AlertCircle">>

SeqRange(s) == {s[k] : k \in DOMAIN s}

\* A loader whose except branch gives an empty list instead of the
\* built-in one.
load_lucide_icons_EmptyOnError(f) ==
  IF f.exists THEN (IF f.parses THEN f.icons ELSE <<>>) ELSE FALLBACK_ICONS

\* json.load of the icon file; the else branch and the except branch return
\* the same built-in list.
load_lucide_icons(f) ==
  IF f.exists /\ f.parses THEN f.icons ELSE FALLBACK_ICONS

detect_import_source(name) ==
  IF name = "cn" THEN "@/lib/utils"
  ELSE IF name \in DOMAIN SHADCN_COMPONENTS
    THEN "@/components/ui/" \o SHADCN_COMPONENTS[name]
  ELSE IF name \in SeqRange(LUCIDE_ICONS) THEN "lucide-react"
  ELSE IF name \in SeqRange(REACT_COMPONENTS) THEN "react"
  ELSE IF \E k \in DOMAIN NEXTJS_IMPORTS : name \in SeqRange(NEXTJS_IMPORTS[k][2])
    THEN LET k == CHOOSE i \in DOMAIN NEXTJS_IMPORTS :
                    /\ name \in SeqRange(NEXTJS_IMPORTS[i][2])
                    /\ \A j \in 1..(i - 1) : name \notin SeqRange(NEXTJS_IMPORTS[j][2])
         IN NEXTJS_IMPORTS[k][1]
  ELSE None

(***************************************************************************)
(* Lexical classes and regular expressions over tokens                     *)
(***************************************************************************)
\* \s : a space inside a line, the newline between the lines of a text.
WS == {" ", "\n"}
QUOTES == {"'", "\""}

\* Words matching  use[A-Z][a-zA-Z0-9]*  among the words of the model.
HookWords ==
  {"useContext", "useState", "useEffect", "useReducer", "useCallback", "useMemo", "useRef",
   "useImperativeHandle", "useLayoutEffect", "useDebugValue", "useRouter", "usePathname",
   "useSearchParams", "useToast"}

\* Words of the tables that start with a lower-case letter.
LowerWords ==
  {"cn", "memo", "forwardRef", "createContext", "createRef", "isValidElement",
   "cloneElement", "createElement", "createFactory", "lazy", "withRouter", "redirect"}

\* Capitalised words of the texts below that no table knows.
UnknownCapWords == {"Foo", "React"}

\* Icon names a lucide_icons.json may hold besides the built-in ones.
JsonIconWords == {"Link", "Image", "Component", "Calendar", "Home"}

\* Words matching  [A-Z][a-zA-Z0-9]*  among the words of the model.
CapWords ==
  ((DOMAIN SHADCN_COMPONENTS) \cup SeqRange(REACT_COMPONENTS) \cup SeqRange(FALLBACK_ICONS)
   \cup UNION {SeqRange(NEXTJS_IMPORTS[k][2]) : k \in DOMAIN NEXTJS_IMPORTS}
   \cup UnknownCapWords \cup JsonIconWords) \ (HookWords \cup LowerWords)

\* Regular-expression terms.  Tok(S): one token of S;  Not(S): one token
\* outside S;  Cat: concatenation;  Alt: alternation;  Star, Plus, Opt.
Tok(S) == <<"tok", S>>
Not(S) == <<"not", S>>
Cat(rs) == <<"cat", rs>>
Alt(rs) == <<"alt", rs>>
Star(r) == <<"star", r>>
Plus(r) == <<"plus", r>>
Opt(r) == <<"opt", r>>
Lit(t) == Tok({t})

\* Ends(re, s, P): the positions where a match of re that starts at a
\* position of P can end (position p is in front of token p of s).
RECURSIVE Ends(_, _, _)
Ends(re, s, P) ==
  IF P = {} THEN {}
  ELSE CASE re[1] = "tok" -> {p + 1 : p \in {q \in P : q <= Len(s) /\ s[q] \in re[2]}}
         [] re[1] = "not" -> {p + 1 : p \in {q \in P : q <= Len(s) /\ s[q] \notin re[2]}}
         [] re[1] = "cat" ->
              IF re[2] = <<>> THEN P
              ELSE Ends(<<"cat", Tail(re[2])>>, s, Ends(Head(re[2]), s, P))
         [] re[1] = "alt" -> UNION {Ends(re[2][k], s, P) : k \in DOMAIN re[2]}
         [] re[1] = "opt" -> P \cup Ends(re[2], s, P)
         [] re[1] = "star" ->
              LET Q == P \cup Ends(re[2], s, P) IN IF Q = P THEN P ELSE Ends(re, s, Q)
         [] re[1] = "plus" -> Ends(<<"star", re[2]>>, s, Ends(re[2], s, P))

\* re.match(r'^...$', s) and re.match(r'^...', s).
FullMatch(re, s) == (Len(s) + 1) \in Ends(re, s, {1})
PrefixMatch(re, s) == Ends(re, s, {1}) # {}

\* str.strip(), str.startswith('import ').
RECURSIVE LStrip(_)
LStrip(l) == IF l # <<>> /\ Head(l) \in WS THEN LStrip(Tail(l)) ELSE l
RECURSIVE RStrip(_)
RStrip(l) ==
  IF l # <<>> /\ l[Len(l)] \in WS THEN RStrip(SubSeq(l, 1, Len(l) - 1)) ELSE l
Strip(l) == RStrip(LStrip(l))

S0 == Star(Tok(WS))
S1 == Plus(Tok(WS))
Q == Tok(QUOTES)
NQ1 == Plus(Not(QUOTES))
FromQuoted == <<Lit("from"), S0, Q, NQ1, Q>>

\* ^import\s*{\s*([^}]+?)\s*}\s*from\s*['"]([^'"]+)['"];?$
RE_single ==
  Cat(<<Lit("import"), S0, Lit("{"), S0, Plus(Not({"}"})), S0, Lit("}"), S0>>
      \o FromQuoted \o <<Opt(Lit(";"))>>)
\* ^import\s*{\s*$
RE_multi_start == Cat(<<Lit("import"), S0, Lit("{"), S0>>)
\* ^\s*}(?:[^}]+)?\s*from\s*['"]([^'"]+)['"];?$
RE_multi_end ==
  Cat(<<S0, Lit("}"), Opt(Plus(Not({"}"}))), S0>> \o FromQuoted \o <<Opt(Lit(";"))>>)
\* ^\s*import\s+(?:['"][^'"]+['"]|[^;]+?\s+from\s*['"][^'"]+['"]
\*               |\*\s+as\s+\S+\s+from\s*['"][^'"]+['"]);?$
RE_general ==
  Cat(<<S0, Lit("import"), S1,
        Alt(<<Cat(<<Q, NQ1, Q>>),
              Cat(<<Plus(Not({";"})), S1>> \o FromQuoted),
              Cat(<<Lit("*"), S1, Lit("as"), S1, Plus(Not(WS)), S1>> \o FromQuoted)>>),
        Opt(Lit(";"))>>)
\* ^import\s*{\s*[^}]+?\s*}\s*from\s*['"]
RE_nested_named ==
  Cat(<<Lit("import"), S0, Lit("{"), S0, Plus(Not({"}"})), S0, Lit("}"), S0,
        Lit("from"), S0, Q>>)
\* ^import\s+\S+\s+from\s*['"]
RE_nested_default == Cat(<<Lit("import"), S1, Plus(Not(WS)), S1, Lit("from"), S0, Q>>)
\* ^import\s*['"].*['"]
RE_nested_side == Cat(<<Lit("import"), S0, Q, Star(Not({"\n"})), Q>>)
\* ^(?:"use client"|'use client');?$
RE_use_client ==
  Cat(<<Alt(<<Cat(<<Lit("\""), Lit("use"), Lit(" "), Lit("client"), Lit("\"")>>),
              Cat(<<Lit("'"), Lit("use"), Lit(" "), Lit("client"), Lit("'")>>)>>),
        Opt(Lit(";"))>>)

(***************************************************************************)
(* Python's order of strings (by code point), for sorted()                 *)
(***************************************************************************)
CodePoints ==
  " " :> <<32>> @@
  "\"" :> <<34>> @@
  "#!" :> <<35, 33>> @@
  "'" :> <<39>> @@
  "(" :> <<40>> @@
  ")" :> <<41>> @@
  "*" :> <<42>> @@
  "," :> <<44>> @@
  "." :> <<46>> @@
  "./globals.css" :> <<46, 47, 103, 108, 111, 98, 97, 108, 115, 46, 99, 115, 115>> @@
  "/*" :> <<47, 42>> @@
  "//" :> <<47, 47>> @@
  "/>" :> <<47, 62>> @@
  "/usr/bin/env" :> <<47, 117, 115, 114, 47, 98, 105, 110, 47, 101, 110, 118>> @@
  "1" :> <<49>> @@
  ";" :> <<59>> @@
  "<" :> <<60>> @@
  "=" :> <<61>> @@
  "@/components/ui/button" :> <<64, 47, 99, 111, 109, 112, 111, 110, 101, 110, 116, 115, 47, 117, 105, 47, 98, 117, 116, 116, 111, 110>> @@
  "@/components/ui/card" :> <<64, 47, 99, 111, 109, 112, 111, 110, 101, 110, 116, 115, 47, 117, 105, 47, 99, 97, 114, 100>> @@
  "@/lib/utils" :> <<64, 47, 108, 105, 98, 47, 117, 116, 105, 108, 115>> @@
  "Button" :> <<66, 117, 116, 116, 111, 110>> @@
  "Card" :> <<67, 97, 114, 100>> @@
  "CardTitle" :> <<67, 97, 114, 100, 84, 105, 116, 108, 101>> @@
  "Foo" :> <<70, 111, 111>> @@
  "Link" :> <<76, 105, 110, 107>> @@
  "React" :> <<82, 101, 97, 99, 116>> @@
  "Sun" :> <<83, 117, 110>> @@
  "as" :> <<97, 115>> @@
  "client" :> <<99, 108, 105, 101, 110, 116>> @@
  "cn" :> <<99, 110>> @@
  "const" :> <<99, 111, 110, 115, 116>> @@
  "from" :> <<102, 114, 111, 109>> @@
  "header" :> <<104, 101, 97, 100, 101, 114>> @@
  "import" :> <<105, 109, 112, 111, 114, 116>> @@
  "lucide-react" :> <<108, 117, 99, 105, 100, 101, 45, 114, 101, 97, 99, 116>> @@
  "next/link" :> <<110, 101, 120, 116, 47, 108, 105, 110, 107>> @@
  "next/navigation" :> <<110, 101, 120, 116, 47, 110, 97, 118, 105, 103, 97, 116, 105, 111, 110>> @@
  "next/router" :> <<110, 101, 120, 116, 47, 114, 111, 117, 116, 101, 114>> @@
  "node" :> <<110, 111, 100, 101>> @@
  "r" :> <<114>> @@
  "react" :> <<114, 101, 97, 99, 116>> @@
  "use" :> <<117, 115, 101>> @@
  "useEffect" :> <<117, 115, 101, 69, 102, 102, 101, 99, 116>> @@
  "useMemo" :> <<117, 115, 101, 77, 101, 109, 111>> @@
  "useRef" :> <<117, 115, 101, 82, 101, 102>> @@
  "useRouter" :> <<117, 115, 101, 82, 111, 117, 116, 101, 114>> @@
  "useState" :> <<117, 115, 101, 83, 116, 97, 116, 101>> @@
  "x" :> <<120>> @@
  "{" :> <<123>> @@
  "}" :> <<125>>

\* The characters of a token sequence written out as text.
RECURSIVE Codes(_)
Codes(p) == IF p = <<>> THEN <<>> ELSE CodePoints[Head(p)] \o Codes(Tail(p))

RECURSIVE SeqLess(_, _)
SeqLess(a, b) ==
  IF b = <<>> THEN FALSE
  ELSE IF a = <<>> THEN TRUE
  ELSE IF Head(a) # Head(b) THEN Head(a) < Head(b)
  ELSE SeqLess(Tail(a), Tail(b))

\* str < str for two words, and for two strings given by their tokens.
WordLess(a, b) == SeqLess(CodePoints[a], CodePoints[b])
PieceLess(a, b) == SeqLess(Codes(a), Codes(b))

\* sorted(list(S)) for a set of words, and for a set of tokenised strings.
RECURSIVE SortedWords(_)
SortedWords(S) ==
  IF S = {} THEN <<>>
  ELSE LET m == CHOOSE x \in S : \A y \in S \ {x} : WordLess(x, y)
       IN <<m>> \o SortedWords(S \ {m})
RECURSIVE SortedPieces(_)
SortedPieces(S) ==
  IF S = {} THEN <<>>
  ELSE LET m == CHOOSE x \in S : \A y \in S \ {x} : PieceLess(x, y)
       IN <<m>> \o SortedPieces(S \ {m})

(***************************************************************************)
(* Usage scanner and grouping                                              *)
(***************************************************************************)
\* '\n'.join(lines) as one token stream.
RECURSIVE JoinLines(_)
JoinLines(ls) ==
  IF ls = <<>> THEN <<>>
  ELSE IF Len(ls) = 1 THEN ls[1]
  ELSE ls[1] \o <<"\n">> \o JoinLines(Tail(ls))

find_used_components(text) ==
  LET s == JoinLines(text)
      \* \bcn\s*\(
      cnCall == IF \E k \in DOMAIN s :
                     s[k] = "cn" /\ Ends(Cat(<<S0, Lit("(")>>), s, {k + 1}) # {}
                THEN {"cn"} ELSE {}
      \* <([A-Z][a-zA-Z0-9]*)
      jsx == {s[k + 1] : k \in {i \in 1..(Len(s) - 1) : s[i] = "<" /\ s[i + 1] \in CapWords}}
      \* \b(use[A-Z][a-zA-Z0-9]*)\b
      hooks == {s[k] : k \in {i \in DOMAIN s : s[i] \in HookWords}}
      \* \b([A-Z][a-zA-Z0-9]*)(?:[.(]|\(\s*[A-Z])
      direct == {s[k] : k \in {i \in 1..(Len(s) - 1) :
                                 s[i] \in CapWords /\ s[i + 1] \in {".", "("}}}
  IN cnCall \cup jsx \cup hooks \cup direct

\* A grouping that files a symbol without a table entry under 'react'
\* (the  if source:  test left out, with a default module).
group_components_by_source_NoFilter(components) ==
  LET sourceOf(c) ==
        IF detect_import_source(c) = None THEN "react" ELSE detect_import_source(c)
  IN [src \in {sourceOf(c) : c \in components} |->
        SortedWords({c \in components : sourceOf(c) = src})]

\* dict source -> sorted list of the components that resolve to it.
group_components_by_source(components) ==
  LET sources == {detect_import_source(c) : c \in components} \ {None}
  IN [src \in sources |->
        SortedWords({c \in components : detect_import_source(c) = src})]

(***************************************************************************)
(* Existing-import parser                                                  *)
(***************************************************************************)
Min(S) == CHOOSE x \in S : \A y \in S : x <= y
Max(S) == CHOOSE x \in S : \A y \in S : y <= x

\* str.split(sep) of a line at every token sep.
RECURSIVE SplitOn(_, _)
SplitOn(l, sep) ==
  LET at == {k \in DOMAIN l : l[k] = sep}
  IN IF at = {} THEN <<l>>
     ELSE <<SubSeq(l, 1, Min(at) - 1)>> \o SplitOn(SubSeq(l, Min(at) + 1, Len(l)), sep)

\* {c.strip() for c in components_str.split(',') if c.strip()}
NamedComponents(components_str) ==
  {Strip(c) : c \in SeqRange(SplitOn(components_str, ","))} \ {<<>>}

\* The non-empty items of re.split(r'[,\s]+', line).
RECURSIVE SplitCommaSpace(_)
SplitCommaSpace(l) ==
  LET seps == WS \cup {","}
  IN IF l = <<>> THEN {}
     ELSE IF Head(l) \in seps THEN SplitCommaSpace(Tail(l))
     ELSE LET stop == {k \in DOMAIN l : l[k] \in seps}
              n == IF stop = {} THEN Len(l) ELSE Min(stop) - 1
          IN {SubSeq(l, 1, n)} \cup SplitCommaSpace(SubSeq(l, n + 1, Len(l)))

\* Group 1 of RE_single on a matching line: the text between the opening
\* brace and the first closing brace ([^}]+? cannot pass a brace).
SingleComponentsStr(line) ==
  LET open == Min({k \in DOMAIN line : line[k] = "{"})
      close == Min({k \in DOMAIN line : k > open /\ line[k] = "}"})
  IN SubSeq(line, open + 1, close - 1)

\* The source group of RE_single and RE_multi_end on a matching line: the
\* line ends with  quote, text without quotes, quote, optional semicolon.
RECURSIVE Concat(_)
Concat(p) == IF p = <<>> THEN "" ELSE Head(p) \o Concat(Tail(p))
QuotedSource(line) ==
  LET last == Max({k \in DOMAIN line : line[k] \in QUOTES})
      first == Max({k \in DOMAIN line : k < last /\ line[k] \in QUOTES})
  IN Concat(SubSeq(line, first + 1, last - 1))

\* existing_imports_map.setdefault(source, set()).update(components)
SetDefaultUpdate(m, source, components) ==
  [s \in (DOMAIN m) \cup {source} |->
     (IF s \in DOMAIN m THEN m[s] ELSE {}) \cup (IF s = source THEN components ELSE {})]

\* lines[i] for the 0-based index i of the source.
LineAt(lines, i) == lines[i + 1]

\* An interior line of a block that looks like an import statement itself.
LooksLikeImport(comp_line_content) ==
  \/ PrefixMatch(RE_nested_named, comp_line_content)
  \/ PrefixMatch(RE_nested_default, comp_line_content)
  \/ PrefixMatch(RE_nested_side, comp_line_content)

\* components_in_block without the filter on lines that look like import
\* statements.
BlockComponents_NoFilter(lines, start, j) ==
  UNION {SplitCommaSpace(Strip(LineAt(lines, k))) : k \in (start + 1)..(j - 1)}

\* components_in_block for the block that starts at line start and closes at j.
BlockComponents(lines, start, j) ==
  UNION {IF LooksLikeImport(Strip(LineAt(lines, k))) THEN {}
         ELSE SplitCommaSpace(Strip(LineAt(lines, k))) : k \in (start + 1)..(j - 1)}

\* The inner while loop: the first j >= from whose line closes a block, or
\* len(lines) when the loop runs off the end (its else branch).
BlockEnd(lines, from) ==
  LET closing == {j \in from..(Len(lines) - 1) :
                    FullMatch(RE_multi_end, Strip(LineAt(lines, j)))}
  IN IF closing = {} THEN Len(lines) ELSE Min(closing)

\* A parser that records no range for a default, namespace or side-effect
\* import (branch 3 left out), so that the line stays where it is.
RECURSIVE ParseFrom_GeneralKept(_, _, _, _)
ParseFrom_GeneralKept(lines, i, imports_map, block_ranges) ==
  IF i >= Len(lines)
    THEN [existing_imports_map |-> imports_map,
          import_block_ranges |-> block_ranges]
  ELSE LET line == Strip(LineAt(lines, i)) IN
    IF FullMatch(RE_single, line)
      THEN ParseFrom_GeneralKept(lines, i + 1,
             SetDefaultUpdate(imports_map, QuotedSource(line),
                              NamedComponents(SingleComponentsStr(line))),
             Append(block_ranges, <<i, i>>))
    ELSE IF FullMatch(RE_multi_start, line)
      THEN LET j == BlockEnd(lines, i + 1) IN
           IF j < Len(lines)
             THEN ParseFrom_GeneralKept(lines, j + 1,
                    SetDefaultUpdate(imports_map,
                                     QuotedSource(Strip(LineAt(lines, j))),
                                     BlockComponents(lines, i, j)),
                    Append(block_ranges, <<i, j>>))
           ELSE ParseFrom_GeneralKept(lines, i + 1, imports_map, block_ranges)
    ELSE ParseFrom_GeneralKept(lines, i + 1, imports_map, block_ranges)

\* The outer while loop from index i on.
RECURSIVE ParseFrom(_, _, _, _)
ParseFrom(lines, i, imports_map, block_ranges) ==
  IF i >= Len(lines)
    THEN [existing_imports_map |-> imports_map,
          import_block_ranges |-> block_ranges]
  ELSE LET line == Strip(LineAt(lines, i)) IN
    IF FullMatch(RE_single, line)
      THEN ParseFrom(lines, i + 1,
             SetDefaultUpdate(imports_map, QuotedSource(line),
                              NamedComponents(SingleComponentsStr(line))),
             Append(block_ranges, <<i, i>>))
    ELSE IF FullMatch(RE_multi_start, line)
      THEN LET j == BlockEnd(lines, i + 1) IN
           IF j < Len(lines)
             THEN ParseFrom(lines, j + 1,
                    SetDefaultUpdate(imports_map,
                                     QuotedSource(Strip(LineAt(lines, j))),
                                     BlockComponents(lines, i, j)),
                    Append(block_ranges, <<i, j>>))
           ELSE ParseFrom(lines, i + 1, imports_map, block_ranges)
    ELSE IF FullMatch(RE_general, line)
      THEN ParseFrom(lines, i + 1, imports_map,
                     Append(block_ranges, <<i, i>>))
    ELSE ParseFrom(lines, i + 1, imports_map, block_ranges)

parse_existing_imports(text) == ParseFrom(text, 0, <<>>, <<>>)

(***************************************************************************)
(* Import rewriter                                                         *)
(***************************************************************************)
\* A string is blank when strip() leaves nothing of it.
IsBlank(l) == Strip(l) = <<>>

\* The scan for the 'use client' directive from index current_idx on, after
\* the shebang: blank lines and comment lines are passed over (and marked),
\* the directive ends the scan, and so does every other line.
RECURSIVE TopScan(_, _, _)
TopScan(lines, current_idx, marked) ==
  IF current_idx >= Len(lines)
    THEN [use_client_directive_line |-> <<>>, indices |-> marked]
  ELSE LET line == LineAt(lines, current_idx)
           stripped_line == Strip(line)
       IN IF FullMatch(RE_use_client, stripped_line)
            THEN [use_client_directive_line |-> <<line>>,
                  indices |-> marked \cup {current_idx}]
          ELSE IF \/ stripped_line = <<>>
                  \/ Head(stripped_line) = "//"
                  \/ Head(stripped_line) = "/*"
            THEN TopScan(lines, current_idx + 1, marked \cup {current_idx})
          ELSE [use_client_directive_line |-> <<>>, indices |-> marked]

\* Step 2: shebang_line and use_client_directive_line (each a list of zero
\* or one line: the empty string of the source is the empty list) and
\* initial_special_lines_indices.
SpecialTop(lines) ==
  LET hasShebang == Len(lines) > 0 /\ lines[1] # <<>> /\ Head(lines[1]) = "#!"
      scan == TopScan(lines, IF hasShebang THEN 1 ELSE 0, IF hasShebang THEN {0} ELSE {})
  IN [shebang_line |-> IF hasShebang THEN <<lines[1]>> ELSE <<>>,
      use_client_directive_line |-> scan.use_client_directive_line,
      initial_special_lines_indices |-> scan.indices]

\* The indices of the ranges without the last line of each
\* (range(start, end) for range(start, end + 1)).
RangeIndices_OpenEnd(ranges) ==
  UNION {ranges[k][1]..(ranges[k][2] - 1) :
           k \in DOMAIN ranges}

\* The indices the import ranges cover.
RangeIndices(ranges) ==
  UNION {ranges[k][1]..ranges[k][2] :
           k \in DOMAIN ranges}

\* The lines whose 0-based index is in keep, in their order.
RECURSIVE KeepLines(_, _, _)
KeepLines(lines, i, keep) ==
  IF i >= Len(lines) THEN <<>>
  ELSE (IF i \in keep THEN <<LineAt(lines, i)>> ELSE <<>>) \o KeepLines(lines, i + 1, keep)

\* ', '.join(components)
RECURSIVE JoinComma(_)
JoinComma(components) ==
  IF components = <<>> THEN <<>>
  ELSE IF Len(components) = 1 THEN components[1]
  ELSE components[1] \o <<",", " ">> \o JoinComma(Tail(components))

\* str.rstrip(',')
RECURSIVE RStripComma(_)
RStripComma(l) ==
  IF l # <<>> /\ l[Len(l)] = "," THEN RStripComma(SubSeq(l, 1, Len(l) - 1)) ELSE l

\* A statement whose last symbol line keeps its comma (the rstrip left out).
ImportStatement_TrailingComma(source, components) ==
  IF components = <<>> THEN <<>>
  ELSE IF Len(components) <= 3
    THEN << <<"import", " ", "{", " ">> \o JoinComma(components)
            \o <<" ", "}", " ", "from", " ", "'", source, "'", ";">> >>
  ELSE << <<"import", " ", "{">> >>
       \o [k \in DOMAIN components |-> <<" ", " ">> \o components[k] \o <<",">>]
       \o << <<"}", " ", "from", " ", "'", source, "'", ";">> >>

\* The lines generated for one source with its sorted components.
ImportStatement(source, components) ==
  IF components = <<>> THEN <<>>
  ELSE IF Len(components) <= 3
    THEN << <<"import", " ", "{", " ">> \o JoinComma(components)
            \o <<" ", "}", " ", "from", " ", "'", source, "'", ";">> >>
  ELSE LET items == [k \in DOMAIN components |-> <<" ", " ">> \o components[k] \o <<",">>]
           n == Len(items)
       IN << <<"import", " ", "{">> >>
          \o [items EXCEPT ![n] = RStripComma(items[n])]
          \o << <<"}", " ", "from", " ", "'", source, "'", ";">> >>

\* Statements that list the symbols of a module in descending order (an
\* order a set may be iterated in when  sorted()  is left out).
RECURSIVE Reverse(_)
Reverse(q) == IF q = <<>> THEN <<>> ELSE Reverse(Tail(q)) \o <<Head(q)>>
RECURSIVE GenerateImports_SymbolsUnsorted(_, _)
GenerateImports_SymbolsUnsorted(sorted_sources, all_final_imports) ==
  IF sorted_sources = <<>> THEN <<>>
  ELSE ImportStatement(Head(sorted_sources),
                       Reverse(SortedPieces(all_final_imports[Head(sorted_sources)])))
       \o GenerateImports_SymbolsUnsorted(Tail(sorted_sources), all_final_imports)

\* Step 3: generated_import_lines, over the sorted sources.
RECURSIVE GenerateImports(_, _)
GenerateImports(sorted_sources, all_final_imports) ==
  IF sorted_sources = <<>> THEN <<>>
  ELSE ImportStatement(Head(sorted_sources),
                       SortedPieces(all_final_imports[Head(sorted_sources)]))
       \o GenerateImports(Tail(sorted_sources), all_final_imports)

\* The while loop that pops blank lines off the end.
RECURSIVE PopTrailingBlank(_)
PopTrailingBlank(ls) ==
  IF ls # <<>> /\ IsBlank(ls[Len(ls)])
    THEN PopTrailingBlank(SubSeq(ls, 1, Len(ls) - 1))
  ELSE ls

\* '\n'.join(lines) read back as the list of its lines: joining no line
\* gives the empty string, whose only line is empty.
JoinedText(ls) == IF ls = <<>> THEN << <<>> >> ELSE ls

\* A merge that keeps the used symbols only and drops the existing imports.
MergeImports_UsedOnly(existing, new_imports) ==
  [s \in DOMAIN new_imports |-> {<<c>> : c \in SeqRange(new_imports[s])}]

\* A merge in which the used symbols of a module replace its existing ones
\* (an assignment where the source updates the set).
MergeImports_Overwrite(existing, new_imports) ==
  [s \in (DOMAIN existing) \cup (DOMAIN new_imports) |->
     IF s \in DOMAIN new_imports
       THEN {<<c>> : c \in SeqRange(new_imports[s])}
     ELSE existing[s]]

\* all_final_imports: the existing named imports merged with the used ones.
MergeImports(existing, new_imports) ==
  [s \in (DOMAIN existing) \cup (DOMAIN new_imports) |->
     (IF s \in DOMAIN existing THEN existing[s] ELSE {})
     \cup (IF s \in DOMAIN new_imports
             THEN {<<c>> : c \in SeqRange(new_imports[s])} ELSE {})]

\* A reconstruction that emits the client directive behind the imports.
Reconstruct_DirectiveLate(special, generated_import_lines, non_import_lines) ==
  PopTrailingBlank(special.shebang_line \o generated_import_lines
                   \o special.use_client_directive_line \o non_import_lines)

\* Step 4: the output lines from their three parts.
Reconstruct(special, generated_import_lines, non_import_lines) ==
  LET top == special.shebang_line \o special.use_client_directive_line
      before == IF generated_import_lines # <<>> /\ top # <<>>
                   /\ ~IsBlank(top[Len(top)])
                THEN << <<>> >> ELSE <<>>
      withImports == top \o before \o generated_import_lines
      after == IF generated_import_lines # <<>> /\ non_import_lines # <<>>
                  /\ ~IsBlank(withImports[Len(withImports)])
               THEN << <<>> >> ELSE <<>>
  IN PopTrailingBlank(withImports \o after \o non_import_lines)

\* update_imports after its first step, the call of parse_existing_imports.
RewriteParsed(text, parsed, new_imports) ==
  LET lines == text
      all_final_imports == MergeImports(parsed.existing_imports_map, new_imports)
      special == SpecialTop(lines)
      lines_to_keep_indices ==
        ((0..(Len(lines) - 1)) \ RangeIndices(parsed.import_block_ranges))
          \ special.initial_special_lines_indices
      non_import_lines == KeepLines(lines, 0, lines_to_keep_indices)
      generated_import_lines ==
        GenerateImports(SortedWords(DOMAIN all_final_imports), all_final_imports)
  IN JoinedText(Reconstruct(special, generated_import_lines, non_import_lines))

update_imports(text, new_imports) ==
  RewriteParsed(text, parse_existing_imports(text), new_imports)

(***************************************************************************)
(* Inputs                                                                  *)
(***************************************************************************)
\* The longest text, in lines, and the number of runs over one file.
MaxLines == 3
MaxRuns == 2

ShebangLine == <<"#!", "/usr/bin/env", " ", "node">>
UseClientLine == <<"'", "use", " ", "client", "'", ";">>
BlankLine == <<>>
CommentLine == <<"//", " ", "header">>
ImportCardLine ==
  <<"import", " ", "{", " ", "Card", " ", "}", " ", "from", " ",
    "'", "@/components/ui/card", "'", ";">>
ImportRouterLine ==
  <<"import", " ", "{", "useRouter", "}", " ", "from", " ", "\"", "next/navigation", "\"">>
ImportDefaultLine == <<"import", " ", "React", " ", "from", " ", "'", "react", "'", ";">>
ImportSideEffectLine == <<"import", " ", "'", "./globals.css", "'", ";">>
BlockStartLine == <<"import", " ", "{">>
BlockItemLine == <<" ", " ", "useState", ",">>
BlockEndLine == <<"}", " ", "from", " ", "'", "react", "'", ";">>
JsxButtonLine == <<"<", "Button", "/>">>
UnknownUseLine == <<"Foo", ".", "x", "(", ")">>
ImportHooksLine ==
  <<"import", " ", "{", " ", "useState", ",", " ", "useEffect", ",", " ", "useMemo", " ",
    "}", " ", "from", " ", "'", "react", "'", ";">>
ImportDefaultHookLine == <<"import", " ", "useRef", " ", "from", " ", "'", "react", "'", ";">>
UseRefLine == <<"useRef", "(", ")">>
JsxSunLinkLine == <<"<", "Sun", "/>", "<", "Link", "/>">>
CnLine == <<"cn", "(", ")">>
ImportNamespaceLine ==
  <<"import", " ", "*", " ", "as", " ", "React", " ", "from", " ", "'", "react", "'", ";">>

\* Lines for the head of a file with single-line imports and code, and
\* lines for multi-line import blocks with code.
HeadPool ==
  {ShebangLine, UseClientLine, BlankLine, CommentLine, ImportCardLine, ImportRouterLine,
   ImportDefaultLine, JsxButtonLine, UnknownUseLine}
BlockPool ==
  {BlockStartLine, BlockItemLine, BlockEndLine, ImportCardLine, ImportSideEffectLine,
   JsxButtonLine, BlankLine}

\* Lines for imports of several modules that merge with usages, and lines
\* for a block opened inside a block.
MergePool ==
  {ImportHooksLine, ImportDefaultHookLine, UseRefLine, JsxSunLinkLine, ImportCardLine,
   JsxButtonLine, CnLine}
NestPool ==
  {BlockStartLine, BlockEndLine, BlockItemLine, JsxButtonLine, ImportDefaultLine,
   ImportNamespaceLine}

\* Every text of 1..MaxLines lines of one pool (a text has at least one
\* line: the empty text is the one blank line).  A block inside a block
\* with code between them takes one line more.
TextsOver(pool) == UNION {[1..n -> pool] : n \in 1..MaxLines}
NestTexts == UNION {[1..n -> NestPool] : n \in 1..(MaxLines + 1)}
Texts == TextsOver(HeadPool) \cup TextsOver(BlockPool) \cup TextsOver(MergePool) \cup NestTexts
EmptyText == << <<>> >>

\* lucide_icons.json: absent, unreadable, or a list of icon names.
NoIconFile == [exists |-> FALSE, parses |-> FALSE, icons |-> <<>>]
IconFiles ==
  {NoIconFile,
   [exists |-> TRUE, parses |-> FALSE, icons |-> <<>>],
   [exists |-> TRUE, parses |-> TRUE, icons |-> <<"Sun", "Link", "Component", "Calendar">>],
   [exists |-> TRUE, parses |-> TRUE, icons |-> <<"Home", "Image">>]}

\* The words a table lookup is tried on.
LookupWords == CapWords \cup HookWords \cup LowerWords

(***************************************************************************)
(* process_file, run on one file                                           *)
(***************************************************************************)
Init ==
  /\ iconsFile = NoIconFile
  /\ LUCIDE_ICONS = load_lucide_icons(iconsFile)
  /\ \/ file_exists = TRUE /\ file \in Texts
     \/ file_exists = FALSE /\ file = EmptyText
  /\ content = EmptyText
  /\ used_components = {}
  /\ grouped_components_by_source = <<>>
  /\ existing_imports_map = <<>>
  /\ import_block_ranges = <<>>
  /\ updated_content = EmptyText
  /\ wrote = FALSE
  /\ runs = 0
  /\ component_name = None
  /\ source_found = None
  /\ pc = "idle"
  /\ outer_i = 0
  /\ inner_j = 0
  /\ OtherIdle

\* A run that writes the text back without comparing it with what it read.
process_file_AlwaysWrite ==
  /\ runs < MaxRuns
  /\ runs' = runs + 1
  /\ IF ~file_exists
       THEN UNCHANGED <<file, content, used_components, grouped_components_by_source,
                        existing_imports_map, import_block_ranges, updated_content, wrote>>
     ELSE /\ content' = file
          /\ used_components' = find_used_components(content')
          /\ grouped_components_by_source' = group_components_by_source(used_components')
          /\ LET parsed == parse_existing_imports(content')
             IN /\ existing_imports_map' = parsed.existing_imports_map
                /\ import_block_ranges' = parsed.import_block_ranges
                /\ updated_content' =
                     RewriteParsed(content', parsed, grouped_components_by_source')
          /\ wrote' = TRUE
          /\ file' = IF wrote' THEN updated_content' ELSE file
  /\ UNCHANGED <<iconsFile, LUCIDE_ICONS, file_exists, component_name, source_found,
                 pc, outer_i, inner_j>>
  /\ UNCHANGED otherVars

process_file ==
  /\ runs < MaxRuns
  /\ runs' = runs + 1
  /\ IF ~file_exists
       THEN UNCHANGED <<file, content, used_components, grouped_components_by_source,
                        existing_imports_map, import_block_ranges, updated_content, wrote>>
     ELSE /\ content' = file
          /\ used_components' = find_used_components(content')
          /\ grouped_components_by_source' = group_components_by_source(used_components')
          /\ LET parsed == parse_existing_imports(content')
             IN /\ existing_imports_map' = parsed.existing_imports_map
                /\ import_block_ranges' = parsed.import_block_ranges
                /\ updated_content' =
                     RewriteParsed(content', parsed, grouped_components_by_source')
          /\ wrote' = (updated_content' # content')
          /\ file' = IF wrote' THEN updated_content' ELSE file
  /\ UNCHANGED <<iconsFile, LUCIDE_ICONS, file_exists, component_name, source_found,
                 pc, outer_i, inner_j>>
  /\ UNCHANGED otherVars

Next == process_file

Spec == Init /\ [][Next]_vars

(***************************************************************************)
(* detect_import_source, looked up directly                                *)
(***************************************************************************)
InitTable ==
  /\ iconsFile \in IconFiles
  /\ LUCIDE_ICONS = load_lucide_icons(iconsFile)
  /\ component_name \in LookupWords
  /\ source_found = "unset"
  /\ file_exists = FALSE
  /\ file = EmptyText
  /\ content = EmptyText
  /\ used_components = {}
  /\ grouped_components_by_source = <<>>
  /\ existing_imports_map = <<>>
  /\ import_block_ranges = <<>>
  /\ updated_content = EmptyText
  /\ wrote = FALSE
  /\ runs = 0
  /\ pc = "idle"
  /\ outer_i = 0
  /\ inner_j = 0
  /\ OtherIdle

lookup ==
  /\ source_found = "unset"
  /\ source_found' = detect_import_source(component_name)
  /\ UNCHANGED <<iconsFile, LUCIDE_ICONS, file, file_exists, content, used_components,
                 grouped_components_by_source, existing_imports_map, import_block_ranges,
                 updated_content, wrote, runs, component_name, pc, outer_i, inner_j>>
  /\ UNCHANGED otherVars

NextTable == lookup

SpecTable == InitTable /\ [][NextTable]_vars

(***************************************************************************)
(* update_imports, with parse_existing_imports run one loop step at a time *)
(***************************************************************************)
ParseTexts == TextsOver(BlockPool) \cup NestTexts

InitParse ==
  /\ iconsFile = NoIconFile
  /\ LUCIDE_ICONS = load_lucide_icons(iconsFile)
  /\ file_exists = TRUE
  /\ file \in ParseTexts
  /\ content = file
  /\ used_components = {}
  /\ grouped_components_by_source = <<>>
  /\ existing_imports_map = <<>>
  /\ import_block_ranges = <<>>
  /\ updated_content = EmptyText
  /\ wrote = FALSE
  /\ runs = 0
  /\ component_name = None
  /\ source_found = None
  /\ pc = "outer"
  /\ outer_i = 0
  /\ inner_j = 0
  /\ OtherIdle

\* What no step of the parser changes.
ParseFrame ==
  /\ UNCHANGED <<iconsFile, LUCIDE_ICONS, file, file_exists, content, used_components,
                 grouped_components_by_source, updated_content, wrote, runs, component_name,
                 source_found>>
  /\ UNCHANGED otherVars

\* line = lines[i].strip() while the outer loop runs.
OuterLine == Strip(LineAt(content, outer_i))
InOuterLoop == pc = "outer" /\ outer_i < Len(content)

\* 1. a single-line named import.
parse_single ==
  /\ InOuterLoop
  /\ FullMatch(RE_single, OuterLine)
  /\ existing_imports_map' =
       SetDefaultUpdate(existing_imports_map, QuotedSource(OuterLine),
                        NamedComponents(SingleComponentsStr(OuterLine)))
  /\ import_block_ranges' = Append(import_block_ranges, <<outer_i, outer_i>>)
  /\ outer_i' = outer_i + 1
  /\ UNCHANGED <<pc, inner_j>>
  /\ ParseFrame

\* 2. the start of a multi-line named import: j = i + 1.
parse_multi_start ==
  /\ InOuterLoop
  /\ ~FullMatch(RE_single, OuterLine)
  /\ FullMatch(RE_multi_start, OuterLine)
  /\ inner_j' = outer_i + 1
  /\ pc' = "inner"
  /\ UNCHANGED <<outer_i, existing_imports_map, import_block_ranges>>
  /\ ParseFrame

\* The inner loop on a line that does not close the block: j += 1.
scan_block ==
  /\ pc = "inner"
  /\ inner_j < Len(content)
  /\ ~FullMatch(RE_multi_end, Strip(LineAt(content, inner_j)))
  /\ inner_j' = inner_j + 1
  /\ UNCHANGED <<pc, outer_i, existing_imports_map, import_block_ranges>>
  /\ ParseFrame

\* The inner loop on the closing line: the block is recorded, i = j + 1.
\* A closed block after which the outer loop resumes inside the block.
close_block_ResumeInside ==
  /\ pc = "inner"
  /\ inner_j < Len(content)
  /\ FullMatch(RE_multi_end, Strip(LineAt(content, inner_j)))
  /\ existing_imports_map' =
       SetDefaultUpdate(existing_imports_map, QuotedSource(Strip(LineAt(content, inner_j))),
                        BlockComponents(content, outer_i, inner_j))
  /\ import_block_ranges' = Append(import_block_ranges, <<outer_i, inner_j>>)
  /\ outer_i' = outer_i + 1
  /\ pc' = "outer"
  /\ UNCHANGED inner_j
  /\ ParseFrame

close_block ==
  /\ pc = "inner"
  /\ inner_j < Len(content)
  /\ FullMatch(RE_multi_end, Strip(LineAt(content, inner_j)))
  /\ existing_imports_map' =
       SetDefaultUpdate(existing_imports_map, QuotedSource(Strip(LineAt(content, inner_j))),
                        BlockComponents(content, outer_i, inner_j))
  /\ import_block_ranges' = Append(import_block_ranges, <<outer_i, inner_j>>)
  /\ outer_i' = inner_j + 1
  /\ pc' = "outer"
  /\ UNCHANGED inner_j
  /\ ParseFrame

\* A block that does not advance the outer index when nothing closes it.
unclosed_block_NoAdvance ==
  /\ pc = "inner"
  /\ inner_j >= Len(content)
  /\ pc' = "outer"
  /\ UNCHANGED <<outer_i, inner_j, existing_imports_map, import_block_ranges>>
  /\ ParseFrame

\* The else branch of the inner loop: nothing closes the block, i += 1.
unclosed_block ==
  /\ pc = "inner"
  /\ inner_j >= Len(content)
  /\ outer_i' = outer_i + 1
  /\ pc' = "outer"
  /\ UNCHANGED <<inner_j, existing_imports_map, import_block_ranges>>
  /\ ParseFrame

\* 3. a default, namespace or side-effect import.
parse_general ==
  /\ InOuterLoop
  /\ ~FullMatch(RE_single, OuterLine)
  /\ ~FullMatch(RE_multi_start, OuterLine)
  /\ FullMatch(RE_general, OuterLine)
  /\ import_block_ranges' = Append(import_block_ranges, <<outer_i, outer_i>>)
  /\ outer_i' = outer_i + 1
  /\ UNCHANGED <<pc, inner_j, existing_imports_map>>
  /\ ParseFrame

\* Any other line: i += 1.
parse_other ==
  /\ InOuterLoop
  /\ ~FullMatch(RE_single, OuterLine)
  /\ ~FullMatch(RE_multi_start, OuterLine)
  /\ ~FullMatch(RE_general, OuterLine)
  /\ outer_i' = outer_i + 1
  /\ UNCHANGED <<pc, inner_j, existing_imports_map, import_block_ranges>>
  /\ ParseFrame

\* The outer loop ends and parse_existing_imports returns.
parse_return ==
  /\ pc = "outer"
  /\ outer_i >= Len(content)
  /\ pc' = "parsed"
  /\ UNCHANGED <<outer_i, inner_j, existing_imports_map, import_block_ranges>>
  /\ ParseFrame

\* The rest of update_imports, from the parse result to the returned text.
rewrite ==
  /\ pc = "parsed"
  /\ used_components' = find_used_components(content)
  /\ grouped_components_by_source' = group_components_by_source(used_components')
  /\ updated_content' =
       RewriteParsed(content,
                     [existing_imports_map |-> existing_imports_map,
                      import_block_ranges |-> import_block_ranges],
                     grouped_components_by_source')
  /\ pc' = "returned"
  /\ UNCHANGED <<iconsFile, LUCIDE_ICONS, file, file_exists, content, existing_imports_map,
                 import_block_ranges, wrote, runs, component_name, source_found,
                 outer_i, inner_j>>
  /\ UNCHANGED otherVars

NextParse ==
  \/ parse_single
  \/ parse_multi_start
  \/ scan_block
  \/ close_block
  \/ unclosed_block
  \/ parse_general
  \/ parse_other
  \/ parse_return
  \/ rewrite

SpecParse == InitParse /\ [][NextParse]_vars

(***************************************************************************)
(* process_file over texts of import statements in every order             *)
(***************************************************************************)
\* A stray opening line, blocks, block items and a one-line import, in
\* texts of up to MaxLines + 1 lines.
OrderPool == {BlockStartLine, BlockEndLine, BlockItemLine, ImportCardLine}
OrderTexts == UNION {[1..n -> OrderPool] : n \in 1..(MaxLines + 1)}

InitOrder ==
  /\ iconsFile = NoIconFile
  /\ LUCIDE_ICONS = load_lucide_icons(iconsFile)
  /\ file_exists = TRUE
  /\ file \in OrderTexts
  /\ content = EmptyText
  /\ used_components = {}
  /\ grouped_components_by_source = <<>>
  /\ existing_imports_map = <<>>
  /\ import_block_ranges = <<>>
  /\ updated_content = EmptyText
  /\ wrote = FALSE
  /\ runs = 0
  /\ component_name = None
  /\ source_found = None
  /\ pc = "idle"
  /\ outer_i = 0
  /\ inner_j = 0
  /\ OtherIdle

SpecOrder == InitOrder /\ [][Next]_vars

(***************************************************************************)
(* What a finished run shows                                               *)
(***************************************************************************)
\* process_file has rewritten the text  content  into  updated_content.
Ran == file_exists /\ runs >= 1

\* The named imports the parser recognises in the input (as the run
\* recorded them) and in the output.
OutParsed == parse_existing_imports(updated_content)
InNamed == existing_imports_map
OutNamed == OutParsed.existing_imports_map
Imported(m, named) == IF m \in DOMAIN named THEN named[m] ELSE {}

\* The used symbols as import items.
UsedItems == {<<u>> : u \in used_components}

\* Index i (0-based) lies inside one of the ranges.
Covers(ranges, i) == \E k \in DOMAIN ranges : ranges[k][1] <= i /\ i <= ranges[k][2]

\* ls is the end of the text.
IsSuffix(ls, text) ==
  /\ Len(ls) <= Len(text)
  /\ SubSeq(text, Len(text) - Len(ls) + 1, Len(text)) = ls

\* A list of lines without the blank lines at its end.
WithoutTrailingBlank(ls) ==
  LET solid == {k \in DOMAIN ls : Strip(ls[k]) # <<>>}
  IN IF solid = {} THEN <<>> ELSE SubSeq(ls, 1, Max(solid))

(***************************************************************************)
(* Claims                                                                  *)
(***************************************************************************)
\* C1: the rewrite is idempotent: a second run of process_file over the
\* text the first run left returns that text unchanged, character for
\* character, blank lines around the import block included.
C1_Idempotent == (file_exists /\ runs >= 2) => updated_content = content

\* C2: every used symbol that the table resolves is imported in the output
\* from the module the table gives, and from no other module.
C2_SymbolCoverage ==
  Ran =>
    LET outNamed == OutNamed
    IN \A s \in used_components :
         detect_import_source(s) # None =>
           /\ <<s>> \in Imported(detect_import_source(s), outNamed)
           /\ \A m \in (DOMAIN outNamed) \ {detect_import_source(s)} :
                <<s>> \notin outNamed[m]

IsOtherImport(ranges, i) ==
  /\ \E k \in DOMAIN ranges : ranges[k] = <<i, i>>
  /\ FullMatch(RE_general, Strip(LineAt(content, i)))
  /\ ~FullMatch(RE_single, Strip(LineAt(content, i)))

\* C4: every default, namespace and side-effect import that the parser
\* marks for removal is present again in the output.
C4_OtherImportsSurvive ==
  Ran =>
    LET ranges == import_block_ranges
    IN \A i \in 0..(Len(content) - 1) :
         IsOtherImport(ranges, i) =>
           \E k \in DOMAIN updated_content :
             Strip(updated_content[k]) = Strip(LineAt(content, i))

\* The special top region of the input, read off the text: the shebang,
\* and after it the blank and comment lines up to the first line that is
\* neither, that line included when it is the client directive.
HasShebang == content[1] # <<>> /\ Head(content[1]) = "#!"
FirstAfterShebang == IF HasShebang THEN 1 ELSE 0
IsBlankOrComment(l) == Strip(l) = <<>> \/ Head(Strip(l)) \in {"//", "/*"}
IsDirective(l) == FullMatch(RE_use_client, Strip(l))
LeadingOnly(i) ==
  /\ FirstAfterShebang <= i
  /\ \A k \in FirstAfterShebang..(i - 1) : IsBlankOrComment(LineAt(content, k))
InTopRegion(i) ==
  \/ HasShebang /\ i = 0
  \/ LeadingOnly(i) /\ (IsBlankOrComment(LineAt(content, i)) \/ IsDirective(LineAt(content, i)))
LeadingDirective(d) == LeadingOnly(d) /\ IsDirective(LineAt(content, d))

\* The input lines outside every import range and outside the top region.
PlainIndices(ranges) ==
  {i \in 0..(Len(content) - 1) : ~Covers(ranges, i) /\ ~InTopRegion(i)}
RECURSIVE LinesOf(_, _)
LinesOf(text, K) ==
  IF K = {} THEN <<>> ELSE <<LineAt(text, Min(K))>> \o LinesOf(text, K \ {Min(K)})
PlainLines(ranges) == LinesOf(content, PlainIndices(ranges))

\* Line k (1-based) of the output belongs to what the rewrite puts in
\* front of the code: the shebang, the directive, a separator, an import.
IsFrontLine(outRanges, k) ==
  \/ Strip(updated_content[k]) = <<>>
  \/ k = 1 /\ Head(updated_content[k]) = "#!"
  \/ k <= 2 /\ IsDirective(updated_content[k])
  \/ Covers(outRanges, k - 1)

\* C5: the input lines outside the import ranges and the top region are the
\* end of the output, each once, unchanged and in their order, except for
\* the blank lines that end them; the output lines in front of them are
\* the special lines, separators and import statements only.
C5_NonImportPreserved ==
  Ran =>
    LET kept == WithoutTrailingBlank(PlainLines(import_block_ranges))
        outRanges == OutParsed.import_block_ranges
        p == Len(updated_content) - Len(kept)
    IN /\ IsSuffix(kept, updated_content)
       /\ \A k \in 1..p : IsFrontLine(outRanges, k)

\* A run that removed imports and a top region and kept code behind them.
C5_Witness ==
  /\ Ran /\ runs = 1 /\ wrote
  /\ import_block_ranges # <<>>
  /\ \E i \in 0..(Len(content) - 1) : InTopRegion(i)
  /\ WithoutTrailingBlank(PlainLines(import_block_ranges)) # <<>>

\* Line i of the input opens a block that no later line closes.
Unterminated(i) ==
  /\ FullMatch(RE_multi_start, Strip(LineAt(content, i)))
  /\ \A j \in (i + 1)..(Len(content) - 1) :
       ~FullMatch(RE_multi_end, Strip(LineAt(content, j)))

\* The identifiers among the tokens of the lines with the given indices.
IdentifiersIn(K) ==
  UNION {SeqRange(LineAt(content, i)) \cap (CapWords \cup HookWords \cup LowerWords) : i \in K}

\* C6: when an  import {  line is closed by no later line, the block (that
\* line and all lines after it) is in the output unchanged, no import range
\* covers a line of it, and no identifier that occurs only inside it is in
\* the generated imports.
C6_UnterminatedSafe ==
  Ran =>
    LET ranges == import_block_ranges
        outNamed == OutNamed
    IN \A i \in 0..(Len(content) - 1) :
         Unterminated(i) =>
           /\ IsSuffix(WithoutTrailingBlank(SubSeq(content, i + 1, Len(content))),
                       updated_content)
           /\ \A j \in i..(Len(content) - 1) : ~Covers(ranges, j)
           /\ \A w \in IdentifiersIn(i..(Len(content) - 1)) \ IdentifiersIn(0..(i - 1)) :
                \A m \in DOMAIN outNamed : <<w>> \notin outNamed[m]

\* C7: a shebang first line is the first output line; the client directive
\* found after the optional shebang and leading blank and comment lines is
\* in the output right after the shebang (first, without one) and in front
\* of every import statement.
C7_SpecialLinesFirst ==
  Ran =>
    LET outRanges == OutParsed.import_block_ranges
        pos == FirstAfterShebang + 1
    IN /\ HasShebang => updated_content[1] = content[1]
       /\ \A d \in 0..(Len(content) - 1) :
            LeadingDirective(d) =>
              /\ pos <= Len(updated_content)
              /\ updated_content[pos] = LineAt(content, d)
              /\ \A r \in DOMAIN outRanges : outRanges[r][1] + 1 > pos

\* A shebang, a directive behind a comment, and a generated import.
C7_Witness ==
  /\ Ran /\ HasShebang
  /\ \E d \in 0..(Len(content) - 1) : LeadingDirective(d)
  /\ OutParsed.import_block_ranges # <<>>

\* C8: a text with no recognised import and no usage that the table
\* resolves is returned unchanged, so process_file writes nothing.
C8_NoOp ==
  (/\ Ran
   /\ import_block_ranges = <<>>
   /\ \A u \in used_components : detect_import_source(u) = None)
    => (updated_content = content /\ ~wrote)

\* The symbol sources by the claimed priority, highest first.
InNextjs(name) == \E k \in DOMAIN NEXTJS_IMPORTS : name \in SeqRange(NEXTJS_IMPORTS[k][2])
InReact(name) == name \in SeqRange(REACT_COMPONENTS)
InShadcn(name) == name \in DOMAIN SHADCN_COMPONENTS
InLucide(name) == name \in SeqRange(LUCIDE_ICONS)
SourcesDefining(name) ==
  (IF InNextjs(name) THEN {"nextjs"} ELSE {}) \cup (IF InReact(name) THEN {"react"} ELSE {})
  \cup (IF InShadcn(name) THEN {"shadcn"} ELSE {}) \cup (IF InLucide(name) THEN {"lucide"} ELSE {})

\* C9: a name that more than one symbol source defines resolves to the
\* module of the highest-priority source: NEXTJS_IMPORTS, then
\* REACT_COMPONENTS, then SHADCN_COMPONENTS, then LUCIDE_ICONS.
C9_CollisionPriority ==
  (source_found # "unset" /\ Cardinality(SourcesDefining(component_name)) > 1) =>
    IF InNextjs(component_name)
      THEN \E k \in DOMAIN NEXTJS_IMPORTS :
             /\ component_name \in SeqRange(NEXTJS_IMPORTS[k][2])
             /\ source_found = NEXTJS_IMPORTS[k][1]
    ELSE IF InReact(component_name) THEN source_found = "react"
    ELSE IF InShadcn(component_name)
      THEN source_found = "@/components/ui/" \o SHADCN_COMPONENTS[component_name]
    ELSE source_found = "lucide-react"

\* C10: every (module, symbol) pair of the output's named imports is a
\* recognised named import of the input or a used symbol that the table
\* resolves to that module; a used symbol without a table entry adds no
\* import.
C10_NoInventedImport ==
  Ran =>
    LET inNamed == InNamed
        outNamed == OutNamed
    IN \A m \in DOMAIN outNamed :
         \A c \in outNamed[m] :
           \/ c \in Imported(m, inNamed)
           \/ \E u \in used_components : c = <<u>> /\ detect_import_source(u) = m

\* A used symbol without a table entry beside one the table resolves.
C10_Witness ==
  /\ Ran
  /\ LET inNamed == InNamed
         outNamed == OutNamed
     IN /\ \E u \in used_components :
             /\ detect_import_source(u) = None
             /\ \A m \in DOMAIN outNamed : <<u>> \notin outNamed[m]
        /\ \E u \in used_components :
             /\ detect_import_source(u) # None
             /\ <<u>> \notin UNION {inNamed[m] : m \in DOMAIN inNamed}

\* all_final_imports of the run: module -> the symbols to import from it.
FinalImports == MergeImports(existing_imports_map, grouped_components_by_source)

\* Line l is the one-line statement of module m for the symbols S.
IsSingleStatement(l, m, S) ==
  \E f \in [1..Cardinality(S) -> S] :
    /\ SeqRange(f) = S
    /\ l = <<"import", " ", "{", " ">> \o JoinComma(f)
           \o <<" ", "}", " ", "from", " ", "'", m, "'", ";">>

\* The output holds, from line i (1-based) on, the multi-line statement of
\* module m for the symbols S: the opening line, one symbol per line with a
\* comma behind each but the last, the closing line.
IsBlockAt(i, m, S) ==
  LET k == Cardinality(S)
      item(j) == updated_content[i + j]
      symbol(j) == IF j < k THEN SubSeq(item(j), 3, Len(item(j)) - 1)
                   ELSE SubSeq(item(j), 3, Len(item(j)))
  IN /\ i + k + 1 <= Len(updated_content)
     /\ updated_content[i] = <<"import", " ", "{">>
     /\ updated_content[i + k + 1] = <<"}", " ", "from", " ", "'", m, "'", ";">>
     /\ \A j \in 1..k :
          /\ Len(item(j)) >= 3
          /\ SubSeq(item(j), 1, 2) = <<" ", " ">>
          /\ (j < k) => item(j)[Len(item(j))] = ","
          /\ (j = k) => item(j)[Len(item(j))] # ","
     /\ {symbol(j) : j \in 1..k} = S

\* Line l is a one-line named import of module m.
IsSingleImportOf(l, m) == FullMatch(RE_single, Strip(l)) /\ QuotedSource(Strip(l)) = m

\* C11: a module with 1 to 3 symbols is in the output as exactly one line
\* import { A, B } from 'm';  and a module with more than 3 symbols as a
\* multi-line block: the opening line, one symbol per line, each but the
\* last with a comma behind it and the last without, the closing line.
C11_SmallGroupFormat ==
  Ran =>
    LET fin == FinalImports
    IN \A m \in DOMAIN fin :
         LET S == fin[m]
             k == Cardinality(S)
         IN /\ k \in 1..3 =>
                 /\ Cardinality({i \in DOMAIN updated_content :
                                   IsSingleStatement(updated_content[i], m, S)}) = 1
                 /\ \A i \in DOMAIN updated_content : ~IsBlockAt(i, m, S)
            /\ k > 3 =>
                 /\ \E i \in DOMAIN updated_content : IsBlockAt(i, m, S)
                 /\ \A i \in DOMAIN updated_content :
                      ~IsSingleImportOf(updated_content[i], m)

\* One module with more than 3 symbols beside one with at most 3.
C11_Witness ==
  /\ Ran
  /\ LET fin == FinalImports
     IN /\ \E m \in DOMAIN fin : Cardinality(fin[m]) > 3
        /\ \E m \in DOMAIN fin : Cardinality(fin[m]) \in 1..3

\* The named-import statements of a text in their order, read off the
\* ranges the parser finds in it: the module and the symbols as listed.
ListedSymbols(text, r) ==
  IF r[1] = r[2]
    THEN LET items == SplitOn(SingleComponentsStr(Strip(LineAt(text, r[1]))), ",")
         IN [k \in DOMAIN items |-> Strip(items[k])]
  ELSE [k \in 1..(r[2] - r[1] - 1) |-> RStripComma(Strip(LineAt(text, r[1] + k)))]
IsNamedRange(text, r) ==
  \/ r[1] < r[2]
  \/ FullMatch(RE_single, Strip(LineAt(text, r[1])))
StatementsOf(text, ranges) ==
  LET named == SelectSeq(ranges, LAMBDA r : IsNamedRange(text, r))
  IN [k \in DOMAIN named |->
        [source |-> QuotedSource(Strip(LineAt(text, named[k][2]))),
         symbols |-> ListedSymbols(text, named[k])]]

\* The precedence bucket the sort key gives a module.
ComponentLibraryPaths == {"@/components/ui/" \o SHADCN_COMPONENTS[c] : c \in DOMAIN SHADCN_COMPONENTS}
InternalLibraryPaths == {"@/lib/utils"}
FrameworkPaths == {NEXTJS_IMPORTS[k][1] : k \in DOMAIN NEXTJS_IMPORTS}
Bucket(m) ==
  IF m \in ComponentLibraryPaths THEN 0
  ELSE IF m \in InternalLibraryPaths THEN 1
  ELSE IF m \in FrameworkPaths THEN 2
  ELSE IF m = "react" THEN 3
  ELSE IF m = "lucide-react" THEN 4
  ELSE 5

SymbolsAscending(symbols) ==
  \A k \in 1..(Len(symbols) - 1) : PieceLess(symbols[k], symbols[k + 1])

\* C12 (as claimed): the statements of the output are ordered by the bucket
\* of their module (component library, internal library, framework paths,
\* react, lucide-react, others), the others alphabetically, and the symbols
\* of one statement are sorted.
C12_BucketOrder ==
  Ran =>
    LET st == StatementsOf(updated_content, OutParsed.import_block_ranges)
    IN /\ \A k \in 1..(Len(st) - 1) :
            \/ Bucket(st[k].source) < Bucket(st[k + 1].source)
            \/ /\ Bucket(st[k].source) = Bucket(st[k + 1].source)
               /\ Bucket(st[k].source) = 5 => WordLess(st[k].source, st[k + 1].source)
       /\ \A k \in DOMAIN st : SymbolsAscending(st[k].symbols)

\* C12 (amended): the statements of the output are in ascending order of
\* their module strings compared by code point, and the symbols of one
\* statement are in ascending code-point order.
C12_CodePointOrder ==
  Ran =>
    LET st == StatementsOf(updated_content, OutParsed.import_block_ranges)
    IN /\ \A k \in 1..(Len(st) - 1) : WordLess(st[k].source, st[k + 1].source)
       /\ \A k \in DOMAIN st : SymbolsAscending(st[k].symbols)

\* An output with statements for the icon library, a framework path and a
\* component path, one of them with several symbols.
C12_Witness ==
  /\ Ran
  /\ LET st == StatementsOf(updated_content, OutParsed.import_block_ranges)
         sources == {st[k].source : k \in DOMAIN st}
     IN /\ {"lucide-react", "next/link"} \subseteq sources
        /\ sources \cap ComponentLibraryPaths # {}
        /\ \E k \in DOMAIN st : Len(st[k].symbols) >= 2

\* Line l is a default import ( import N from 'm' ) or a namespace import
\* ( import * as N from 'm' ); the name N and the module m it gives.
RE_default_import ==
  Cat(<<Lit("import"), S1, Not(WS \cup {"{", "*"} \cup QUOTES), S1>> \o FromQuoted
      \o <<Opt(Lit(";"))>>)
RE_namespace_import ==
  Cat(<<Lit("import"), S1, Lit("*"), S1, Lit("as"), S1, Not(WS), S1>> \o FromQuoted
      \o <<Opt(Lit(";"))>>)
IsDefaultOrNamespace(l) ==
  FullMatch(RE_default_import, Strip(l)) \/ FullMatch(RE_namespace_import, Strip(l))
BoundName(l) ==
  LET t == Strip(l)
      from == Max({k \in DOMAIN t : t[k] = "from"})
  IN <<t[Max({k \in 1..(from - 1) : t[k] \notin WS})]>>

StepwiseAgrees ==
  pc \in {"parsed", "returned"} =>
    parse_existing_imports(content) =
      [existing_imports_map |-> existing_imports_map,
       import_block_ranges |-> import_block_ranges]

\* A text: a list of at least one line, each a list of strings.
IsText(t) == t \in Seq(Seq(STRING)) /\ Len(t) >= 1

\* The steps the call has left at most: the lines the outer loop has not
\* passed, and inside one iteration the lines the inner scan has not passed.
StepsLeft ==
  IF pc = "returned" THEN 0
  ELSE IF pc = "parsed" THEN 1
  ELSE (Len(content) + 1 - outer_i) * (Len(content) + 3)
       + (IF pc = "outer" THEN Len(content) + 2 ELSE Len(content) + 1 - inner_j)

\* The call is at a statement it can execute: a branch of the outer loop
\* or its exit, a step of the inner scan or its exit, the code after the
\* parse.
CanStep ==
  \/ InOuterLoop
  \/ pc = "outer" /\ outer_i >= Len(content)
  \/ pc = "inner" /\ inner_j < Len(content)
  \/ pc = "inner" /\ inner_j >= Len(content)
  \/ pc = "parsed"

\* C14: parse_existing_imports terminates and update_imports returns a
\* text, whatever the input: every iteration of the outer loop raises the
\* line index, the inner scan raises its index and stays within the text,
\* every step lowers the bounded count of steps left, the call is never
\* stuck before its return, and what it returns is a text.
C14_Totality ==
  /\ [][(pc' = "outer" /\ (pc # "outer" \/ outer_i' # outer_i)) => outer_i' > outer_i]_vars
  /\ [][(pc = "inner" /\ pc' = "inner") => (inner_j' > inner_j /\ outer_i' = outer_i)]_vars
  /\ [](outer_i <= Len(content) /\ inner_j <= Len(content))
  /\ [][StepsLeft' < StepsLeft]_vars
  /\ [](StepsLeft >= 0)
  /\ [](pc # "returned" => CanStep)
  /\ [](pc = "returned" => IsText(updated_content))

\* A returned call on a text with an unterminated block and, in a
\* terminated block, a line that is an import statement itself.
C14_Witness ==
  /\ pc = "returned"
  /\ \E i \in 0..(Len(content) - 1) : Unterminated(i)
  /\ \E r \in DOMAIN import_block_ranges :
       \E k \in (import_block_ranges[r][1] + 1)..(import_block_ranges[r][2] - 1) :
         LooksLikeImport(Strip(LineAt(content, k)))

\* C15: the icon list is the content of lucide_icons.json when the file
\* exists and parses, and the built-in list when the file is absent or
\* reading it fails; it is a list in every case, and a lookup that uses
\* it gives a module or None.
C15_IconListDefined ==
  /\ (iconsFile.exists /\ iconsFile.parses) => LUCIDE_ICONS = iconsFile.icons
  /\ ~(iconsFile.exists /\ iconsFile.parses) => LUCIDE_ICONS = FALLBACK_ICONS
  /\ LUCIDE_ICONS \in Seq(STRING)
  /\ source_found \in STRING

\* A lookup of a built-in icon name after an icon file that does not parse.
C15_Witness ==
  /\ iconsFile.exists /\ ~iconsFile.parses
  /\ component_name = "Sun"
  /\ source_found = "lucide-react"

\* C16: process_file writes the file if and only if the rewritten text
\* differs from the text it read, and then writes the whole rewritten
\* text; with an equal text, or a path that does not exist, nothing is
\* written and no file is created.
C16_WriteOnlyOnChange ==
  [][/\ wrote' <=> (file_exists /\ updated_content' # content')
     /\ wrote' => file' = updated_content'
     /\ ~wrote' => file' = file
     /\ file_exists' = file_exists]_vars

\* A run that wrote a changed text, after a run on the same file.
C16_Witness ==
  /\ file_exists /\ runs = 2
  /\ wrote
  /\ updated_content # content
  /\ file = updated_content

\* A run that found nothing to change and left the file alone.
C16_WitnessUnchanged ==
  /\ file_exists /\ runs >= 1
  /\ ~wrote
  /\ updated_content = content
  /\ import_block_ranges # <<>>

\* A line that is no import statement, nor the start or the end of one.
IsCodeLine(l) ==
  /\ Strip(l) # <<>>
  /\ ~FullMatch(RE_single, Strip(l))
  /\ ~FullMatch(RE_multi_start, Strip(l))
  /\ ~FullMatch(RE_multi_end, Strip(l))
  /\ ~FullMatch(RE_general, Strip(l))

\* Lines i < k (0-based) both open a block and no line between them closes
\* one: the block opened at i has no closing line of its own.
OpensWithoutClosing(i, k) ==
  /\ i < k
  /\ FullMatch(RE_multi_start, Strip(LineAt(content, i)))
  /\ FullMatch(RE_multi_start, Strip(LineAt(content, k)))
  /\ \A l \in (i + 1)..(k - 1) : ~FullMatch(RE_multi_end, Strip(LineAt(content, l)))

\* C17: every range is one import statement: a single import line, or a
\* block from its opening line to its closing line with no other opening
\* line inside; and when a block is opened again before any closing line,
\* the code lines between the two openings are in no range and are still
\* in the output.
C17_RangesAreImports ==
  Ran =>
    LET ranges == import_block_ranges
        last == Len(content) - 1
    IN /\ \A r \in DOMAIN ranges :
            IF ranges[r][1] = ranges[r][2]
              THEN \/ FullMatch(RE_single, Strip(LineAt(content, ranges[r][1])))
                   \/ FullMatch(RE_general, Strip(LineAt(content, ranges[r][1])))
            ELSE /\ FullMatch(RE_multi_start, Strip(LineAt(content, ranges[r][1])))
                 /\ FullMatch(RE_multi_end, Strip(LineAt(content, ranges[r][2])))
                 /\ \A k \in (ranges[r][1] + 1)..(ranges[r][2] - 1) :
                      ~FullMatch(RE_multi_start, Strip(LineAt(content, k)))
       /\ \A i \in 0..last : \A k \in 0..last :
            OpensWithoutClosing(i, k) =>
              \A l \in (i + 1)..(k - 1) :
                IsCodeLine(LineAt(content, l)) =>
                  /\ ~Covers(ranges, l)
                  /\ \E o \in DOMAIN updated_content : updated_content[o] = LineAt(content, l)

\* C18: every symbol of a recognised named import of module m in the input
\* is in exactly one import statement of m in the output; the output has
\* one statement per module, which lists the existing and the newly
\* resolved symbols of the module, each once.
C18_MergedOnce ==
  Ran =>
    LET inNamed == InNamed
        fin == FinalImports
        st == StatementsOf(updated_content, OutParsed.import_block_ranges)
    IN /\ \A m \in DOMAIN inNamed : \A c \in inNamed[m] :
            Cardinality({k \in DOMAIN st :
                           st[k].source = m /\ c \in SeqRange(st[k].symbols)}) = 1
       /\ \A k1 \in DOMAIN st : \A k2 \in DOMAIN st :
            st[k1].source = st[k2].source => k1 = k2
       /\ \A m \in DOMAIN fin :
            fin[m] # {} => \E k \in DOMAIN st :
                             st[k].source = m /\ SeqRange(st[k].symbols) = fin[m]
       /\ \A k \in DOMAIN st :
            Cardinality(SeqRange(st[k].symbols)) = Len(st[k].symbols)

\* A module with existing symbols and a newly resolved one beside them.
C18_Witness ==
  /\ Ran
  /\ LET inNamed == InNamed
     IN \E m \in (DOMAIN inNamed) \cap (DOMAIN grouped_components_by_source) :
          /\ inNamed[m] # {}
          /\ \E c \in SeqRange(grouped_components_by_source[m]) : <<c>> \notin inNamed[m]
          /\ \E c \in inNamed[m] : c \notin UsedItems

\* Line l is a complete import statement: named, default or namespace, or
\* side-effect.
RE_side_effect_import == Cat(<<Lit("import"), S0, Q, NQ1, Q, Opt(Lit(";"))>>)
IsCompleteImport(l) ==
  \/ FullMatch(RE_single, Strip(l))
  \/ IsDefaultOrNamespace(l)
  \/ FullMatch(RE_side_effect_import, Strip(l))

\* The words of line l: its longest pieces without a comma or white space.
WordsOf(l) ==
  LET seps == WS \cup {","}
      solid(a, b) == \A k \in a..b : l[k] \notin seps
  IN {SubSeq(l, a, b) : <<a, b>> \in
        {p \in (DOMAIN l) \X (DOMAIN l) :
           /\ p[1] <= p[2]
           /\ solid(p[1], p[2])
           /\ (p[1] = 1 \/ l[p[1] - 1] \in seps)
           /\ (p[2] = Len(l) \/ l[p[2] + 1] \in seps)}}

\* What the lines inside the block [start, j] give its module.
InteriorSymbols(start, j) ==
  UNION {IF IsCompleteImport(LineAt(content, k)) THEN {} ELSE WordsOf(LineAt(content, k)) :
           k \in (start + 1)..(j - 1)}

\* C19: when the parser closes a block [start, j], the lines inside it that
\* are complete import statements give the module of the block no symbol
\* and every other line inside gives each of its words; the block is
\* recorded as the one range (start, j) and the scan goes on at j + 1.
C19_NestedImportsAreNoise ==
  [][(pc = "inner" /\ pc' = "outer" /\ import_block_ranges' # import_block_ranges) =>
       LET start == outer_i
           j == inner_j
           source == QuotedSource(Strip(LineAt(content, j)))
       IN /\ import_block_ranges' = Append(import_block_ranges, <<start, j>>)
          /\ outer_i' = j + 1
          /\ DOMAIN existing_imports_map' = (DOMAIN existing_imports_map) \cup {source}
          /\ existing_imports_map'[source] =
               Imported(source, existing_imports_map) \cup InteriorSymbols(start, j)
          /\ \A m \in DOMAIN existing_imports_map :
               m # source => existing_imports_map'[m] = existing_imports_map[m]]_vars

\* A closed block with an import statement and a symbol line inside it.
C19_Witness ==
  /\ pc = "outer"
  /\ import_block_ranges # <<>>
  /\ LET r == import_block_ranges[Len(import_block_ranges)]
     IN /\ r[1] < r[2]
        /\ outer_i = r[2] + 1
        /\ \E k \in (r[1] + 1)..(r[2] - 1) : IsCompleteImport(LineAt(content, k))
        /\ InteriorSymbols(r[1], r[2]) # {}

\* C20: the ranges parse_existing_imports has recorded, at every point of its
\* run and at its return, lie inside the text (0 <= start <= end < number of
\* lines) and each starts strictly after the one before it ends, so no two
\* overlap, whatever the input text.
C20_RangesDisjoint ==
  /\ \A r \in DOMAIN import_block_ranges :
       /\ 0 <= import_block_ranges[r][1]
       /\ import_block_ranges[r][1] <= import_block_ranges[r][2]
       /\ import_block_ranges[r][2] < Len(content)
  /\ \A r \in DOMAIN import_block_ranges :
       r > 1 => import_block_ranges[r][1] > import_block_ranges[r - 1][2]
  /\ pc \in {"outer", "inner"} =>
       \A r \in DOMAIN import_block_ranges : import_block_ranges[r][2] < outer_i

\* A finished parse that recorded a one-line range and then a block of
\* several lines with a complete import among its interior lines.
C20_Witness ==
  /\ pc = "parsed"
  /\ Len(import_block_ranges) >= 2
  /\ \E r \in DOMAIN import_block_ranges :
       /\ r > 1
       /\ import_block_ranges[r][2] > import_block_ranges[r][1] + 1
       /\ \E k \in (import_block_ranges[r][1] + 1)..(import_block_ranges[r][2] - 1) :
            LooksLikeImport(Strip(LineAt(content, k)))
\* The blank and comment lines at the top of the input that the scan for
\* the directive passes over, in their order.
ScannedLeadingIndices ==
  {i \in 0..(Len(content) - 1) : LeadingOnly(i) /\ IsBlankOrComment(LineAt(content, i))}
ScannedLeadingLines == LinesOf(content, ScannedLeadingIndices)

\* C21: the blank and comment lines at the top of the file that the scan
\* for the client directive passes over appear verbatim and in their order
\* in the output, ahead of every generated import statement, whether or not
\* a directive follows them.
C21_LeadingLinesPreserved ==
  Ran =>
    LET lead == ScannedLeadingLines
        n == Len(lead)
        outRanges == OutParsed.import_block_ranges
    IN n > 0 =>
         \E a \in 1..Len(updated_content) :
           /\ a + n - 1 <= Len(updated_content)
           /\ SubSeq(updated_content, a, a + n - 1) = lead
           /\ \A r \in DOMAIN outRanges : outRanges[r][1] + 1 > a + n - 1

\* C22: every identifier of the used-symbol set that process_file hands to
\* update_imports occurs on a line of the file outside its import
\* statements; a name found only inside an import statement is not in it.
C22_UsedOutsideImports ==
  Ran =>
    \A u \in used_components :
      \E i \in 0..(Len(content) - 1) :
        /\ ~Covers(import_block_ranges, i)
        /\ u \in SeqRange(LineAt(content, i))

\* The import lines update_imports generates for text t.
GeneratedBlock(t) ==
  LET all_final_imports ==
        MergeImports(parse_existing_imports(t).existing_imports_map,
                     group_components_by_source(find_used_components(t)))
  IN GenerateImports(SortedWords(DOMAIN all_final_imports), all_final_imports)

\* Lines i..j of text t (1-based) are one import statement: a complete
\* one-line import, or an opening line, item lines and a closing line.
IsStatement(t, i, j) ==
  \/ i = j /\ IsCompleteImport(t[i])
  \/ /\ i < j
     /\ FullMatch(RE_multi_start, Strip(t[i]))
     /\ FullMatch(RE_multi_end, Strip(t[j]))
     /\ \A k \in (i + 1)..(j - 1) :
          /\ ~FullMatch(RE_multi_start, Strip(t[k]))
          /\ ~FullMatch(RE_multi_end, Strip(t[k]))
          /\ ~IsCompleteImport(t[k])

\* The texts that differ from t in the order of two neighbouring import
\* statements only.
StatementSwaps(t) ==
  {SubSeq(t, 1, i - 1) \o SubSeq(t, j + 1, k) \o SubSeq(t, i, j) \o SubSeq(t, k + 1, Len(t)) :
     <<i, j, k>> \in {x \in (1..Len(t)) \X (1..Len(t)) \X (1..Len(t)) :
                        /\ x[1] <= x[2] /\ x[2] < x[3]
                        /\ IsStatement(t, x[1], x[2])
                        /\ IsStatement(t, x[2] + 1, x[3])}}

\* C23: the generated import lines are those of the merged (module,
\* symbol) pairs in sorted order, and a text that differs from the input
\* only in the order of two of its import statements has the same
\* generated import lines.
C23_CanonicalBlock ==
  (Ran /\ runs = 1) =>
    /\ GeneratedBlock(content) =
         GenerateImports(SortedWords(DOMAIN FinalImports), FinalImports)
    /\ \A t2 \in StatementSwaps(content) : GeneratedBlock(t2) = GeneratedBlock(content)

(***************************************************************************)
(* The dashboard of main.py                                                *)
(*                                                                         *)
(* Streamlit runs the script from top to bottom once for every widget      *)
(* event and every refresh; st.rerun() ends the run in progress at the     *)
(* call and schedules a new one.  The threads of stream_output run beside  *)
(* the script and share the queue of st.session_state with it.  A message  *)
(* of the queue carries, besides its type and content, the return code     *)
(* (the content of a 'done' message) and the process it came from, which   *)
(* the script never reads.                                                 *)
(***************************************************************************)
\* The commands one dashboard session may start, and the lines one process
\* may write on each of its two pipes.
MaxCommands == 2
MaxOutputLines == 1

allowed_commands ==
  {"ls", "cat", "grep", "find", "python", "pytest", "allure", "npm", "node", "git",
   "docker", "pip"}
\* (the backquote, the seventh pattern, is written as the word backquote)
dangerous_patterns == {"&&", "||", ";", "|", ">", "<", "backquote", "$("}

\* shlex.split of a command without quotes: its words.
ShlexSplit(command) == SelectSeq(command, LAMBDA t : t \notin WS)

validate_command(command) ==
  LET parts == ShlexSplit(command)
  IN IF parts = <<>> THEN [is_valid |-> FALSE, message |-> "Empty command"]
     ELSE IF Head(parts) \notin allowed_commands
       THEN [is_valid |-> FALSE, message |-> "Command not allowed"]
     ELSE IF \E k \in DOMAIN command : command[k] \in dangerous_patterns
       THEN [is_valid |-> FALSE, message |-> "Dangerous pattern detected"]
     ELSE [is_valid |-> TRUE, message |-> "Command validated"]

\* Commands the form is given, and the two the buttons build.
LsCommand == <<"ls", " ", "-la">>
RmCommand == <<"rm", " ", "-rf", " ", "x">>
PipeCommand == <<"cat", " ", "x", " ", "|", " ", "grep", " ", "y">>
BlankCommand == <<" ">>
FormCommands == {LsCommand, RmCommand, PipeCommand, BlankCommand}
AllureCommand ==
  <<"allure", " ", "generate", " ", "allure-results/run", " ", "-o", " ", "allure-report",
    " ", "--single-file", " ", "--clean">>
ExtractCommand == <<"python", " ", "extract_build_errors.py", " ", "allure-results/run">>

\* The text of a return code.
RcText(returncode) == IF returncode = 0 THEN "0" ELSE "1"

Message(type, text, returncode, p) ==
  [type |-> type, content |-> text, returncode |-> returncode, from |-> p]

\* run_command_async: the session state it leaves, whether it returned
\* success, and whether Popen started a process.  popen_ok tells whether
\* subprocess.Popen finds the executable.
run_command_async(S, command, popen_ok, p) ==
  IF ~validate_command(command).is_valid
    THEN [session_state |-> S, success |-> FALSE, started |-> FALSE]
  ELSE LET session1 == [S EXCEPT !.test_running = TRUE,
                           !.live_output = <<"Starting command: ", Concat(command), "\n">>,
                           !.command_history =
                              Append(@, [command |-> command, status |-> "running",
                                         returncode |-> <<>>])]
       IN IF popen_ok
            THEN [session_state |-> [session1 EXCEPT !.current_process = <<p>>],
                  success |-> TRUE, started |-> TRUE]
          ELSE [session_state |->
                  [session1 EXCEPT !.live_output = <<"Error starting command">>,
                             !.test_running = FALSE],
                success |-> FALSE, started |-> FALSE]

\* update_live_output: the messages of the queue are taken one by one;
\* at a 'done' message st.rerun() ends the script run, so the statements
\* behind the call (202-215) are not reached.
RECURSIVE update_live_output(_)
update_live_output(S) ==
  IF S.output_queue = <<>> THEN [session_state |-> S, rerun |-> FALSE]
  ELSE LET m == Head(S.output_queue)
           session1 == [S EXCEPT !.output_queue = Tail(@)]
       IN CASE m.type = "stdout" ->
                 update_live_output([session1 EXCEPT !.live_output = @ \o <<m.content>>])
            [] m.type = "stderr" ->
                 update_live_output([session1 EXCEPT !.live_output = @ \o <<"[STDERR] ", m.content>>])
            [] m.type = "error" ->
                 update_live_output(
                   [session1 EXCEPT !.live_output = @ \o <<"[ERROR] ", m.content, "\n">>])
            [] m.type = "done" ->
                 [session_state |->
                    [session1 EXCEPT !.live_output =
                                  @ \o <<"\n[COMPLETED] Return code: ", RcText(m.returncode),
                                         "\n">>,
                               !.test_running = FALSE,
                               !.current_process = <<>>],
                  rerun |-> TRUE]

\* The end of the script (443-458).
AutoRefresh(S) ==
  IF S.test_running THEN S
  ELSE LET session1 == IF S.command_just_completed = <<>>
                   THEN [S EXCEPT !.command_just_completed = <<FALSE>>] ELSE S
       IN IF /\ session1.current_process = <<>>
             /\ session1.command_history # <<>>
             /\ session1.command_history[Len(session1.command_history)].status = "completed"
             /\ session1.command_just_completed = <<FALSE>>
            THEN [session1 EXCEPT !.command_just_completed = <<TRUE>>]
          ELSE session1

\* The script from the status section (414) to its end.
StatusAndOutput(S) ==
  LET u == update_live_output(S)
  IN IF u.rerun THEN u.session_state ELSE AutoRefresh(u.session_state)

\* A process Popen has started: it will write output_left more lines, each
\* on one of its two pipes; returncode is None until it exits.
NewProcess(command, lines) ==
  [command |-> command, alive |-> TRUE, returncode |-> <<>>,
   output_left |-> lines, done_put |-> 0]

DashFrame == UNCHANGED <<fileVars, siteVars, genVars>>

\* One script run in which a widget handed command to run_command_async,
\* or not (guarded = the test of test_running at 301).
ScriptRun(command, calls, popen_ok, lines) ==
  LET p == Len(processes) + 1
      r == IF calls
             THEN run_command_async(session_state, command, popen_ok, p)
           ELSE [session_state |-> session_state, success |-> FALSE, started |-> FALSE]
  IN /\ form_disabled' = session_state.test_running
     /\ processes' = IF r.started
                       THEN Append(processes, NewProcess(command, lines))
                     ELSE processes
     /\ session_state' = StatusAndOutput(r.session_state)
     /\ DashFrame

\* The command form is submitted (299-306).
form_submit ==
  /\ ~form_disabled
  /\ Len(session_state.command_history) < MaxCommands
  /\ \E custom_command \in FormCommands, popen_ok \in BOOLEAN, lines \in 0..MaxOutputLines :
       ScriptRun(custom_command,
                 Strip(custom_command) # <<>> /\ ~session_state.test_running,
                 popen_ok, lines)

\* The button Generate Allure Report is pressed (321-329).
generate_allure_report ==
  /\ Len(session_state.command_history) < MaxCommands
  /\ \E popen_ok \in BOOLEAN, lines \in 0..MaxOutputLines :
       ScriptRun(AllureCommand, TRUE, popen_ok, lines)

\* The button Extract Build Errors is pressed (331-338).
extract_build_errors ==
  /\ Len(session_state.command_history) < MaxCommands
  /\ \E popen_ok \in BOOLEAN, lines \in 0..MaxOutputLines :
       ScriptRun(ExtractCommand, TRUE, popen_ok, lines)

\* A script run no widget started: the timer of st_autorefresh, the run
\* that follows st.rerun(), the Refresh button.
refresh ==
  /\ ScriptRun(<<>>, FALSE, FALSE, 0)
  /\ session_state' # session_state \/ form_disabled' # form_disabled

Put(m) == session_state' = [session_state EXCEPT !.output_queue = Append(@, m)]

\* read_stdout of process p puts one line on the queue.
read_stdout(p) ==
  /\ processes[p].output_left > 0
  /\ Put(Message("stdout", "out\n", 0, p))
  /\ processes' = [processes EXCEPT ![p].output_left = @ - 1]
  /\ UNCHANGED form_disabled
  /\ DashFrame

\* read_stderr of process p puts one line on the queue.
read_stderr(p) ==
  /\ processes[p].output_left > 0
  /\ Put(Message("stderr", "err\n", 0, p))
  /\ processes' = [processes EXCEPT ![p].output_left = @ - 1]
  /\ UNCHANGED form_disabled
  /\ DashFrame

\* Process p exits with some return code.
process_exit(p) ==
  /\ processes[p].alive
  /\ \E returncode \in {0, 1} :
       processes' = [processes EXCEPT ![p].alive = FALSE, ![p].returncode = <<returncode>>]
  /\ UNCHANGED <<session_state, form_disabled>>
  /\ DashFrame

\* stream_output of process p: process.wait() has returned, each join has
\* returned because its thread ended or because its second passed, and
\* the finally clause puts the 'done' message.
put_done(p) ==
  /\ ~processes[p].alive
  /\ processes[p].done_put = 0
  /\ Put(Message("done", "", processes[p].returncode[1], p))
  /\ processes' = [processes EXCEPT ![p].done_put = @ + 1]
  /\ UNCHANGED form_disabled
  /\ DashFrame

NextDash ==
  \/ form_submit
  \/ generate_allure_report
  \/ extract_build_errors
  \/ refresh
  \/ \E p \in DOMAIN processes : read_stdout(p)
  \/ \E p \in DOMAIN processes : read_stderr(p)
  \/ \E p \in DOMAIN processes : process_exit(p)
  \/ \E p \in DOMAIN processes : put_done(p)

FileIdle ==
  /\ iconsFile = NoIconFile
  /\ LUCIDE_ICONS = load_lucide_icons(iconsFile)
  /\ file_exists = FALSE
  /\ file = EmptyText
  /\ content = EmptyText
  /\ used_components = {}
  /\ grouped_components_by_source = <<>>
  /\ existing_imports_map = <<>>
  /\ import_block_ranges = <<>>
  /\ updated_content = EmptyText
  /\ wrote = FALSE
  /\ runs = 0
  /\ component_name = None
  /\ source_found = None
  /\ pc = "idle"
  /\ outer_i = 0
  /\ inner_j = 0

InitDash == FileIdle /\ DashIdle /\ SiteIdle /\ GenIdle

SpecDash == InitDash /\ [][NextDash]_vars

\* The started subprocesses that have not exited.
LiveProcesses == {p \in DOMAIN processes : processes[p].alive}

\* C24: over every sequence of form submissions, button presses and
\* refreshes, a subprocess is started only while test_running is false, at
\* most one started subprocess is live at any time, and current_process
\* refers to the live one.
C24_OneCommandAtATime ==
  /\ [][Len(processes') > Len(processes) => ~session_state.test_running]_vars
  /\ [](Cardinality(LiveProcesses) <= 1)
  /\ [](\A p \in LiveProcesses : session_state.current_process = <<p>>)

\* The messages a step took off the queue (none when the queue did not
\* get shorter).
Consumed ==
  SubSeq(session_state.output_queue, 1,
         Len(session_state.output_queue) - Len(session_state'.output_queue))

\* C25: when update_live_output takes the ('done', returncode) message of
\* a command off the queue, then at the end of that handling test_running
\* is false, current_process is None, the last command_history entry has
\* status 'completed' and that return code, test_results holds the return
\* code and the output, and last_output equals live_output.
C25_CompletionBookkeeping ==
  [][\A k \in DOMAIN Consumed :
       Consumed[k].type = "done" =>
         /\ ~session_state'.test_running
         /\ session_state'.current_process = <<>>
         /\ session_state'.last_output = session_state'.live_output
         /\ session_state'.command_history # <<>>
         /\ LET last == session_state'.command_history[Len(session_state'.command_history)]
            IN last.status = "completed" /\ last.returncode = <<Consumed[k].returncode>>
         /\ session_state'.test_results # <<>>
         /\ session_state'.test_results["returncode"] = Consumed[k].returncode
         /\ session_state'.test_results["output"] = session_state'.live_output]_vars

\* C26: for every started command stream_output puts at most one
\* ('done', returncode) message, exactly one once it has ended, and no
\* stdout or stderr line of a process is put on the queue after the
\* 'done' message of that process.
C26_DoneAfterOutput ==
  /\ [](\A p \in DOMAIN processes : processes[p].done_put <= 1)
  /\ [][\A p \in DOMAIN processes :
          processes'[p].done_put # processes[p].done_put =>
            /\ processes[p].done_put = 0
            /\ session_state'.output_queue =
                 Append(session_state.output_queue,
                        Message("done", "", processes[p].returncode[1], p))]_vars
  /\ [][\A p \in DOMAIN processes :
          processes'[p].output_left < processes[p].output_left =>
            processes[p].done_put = 0]_vars

(***************************************************************************)
(* process_generated_site of gen_site_logic.py                             *)
(*                                                                         *)
(* A path is the list of its pieces: the separator "/" and pieces of       *)
(* names, cut so that one path is a prefix of another as a string exactly  *)
(* when it is one as a list.  The rewriting of the response text (622-637) *)
(* and of the written files (668-744) changes no field the model keeps.    *)
(***************************************************************************)
\* The <Edit> blocks of one response.
MaxBlocks == 2

\* The components of a path: what stands between its separators.
PathComponents(path) == SplitOn(path, "/")
IsAbsolute(path) == path # <<>> /\ Head(path) = "/"

\* os.path.join(a, b)
PathJoin(a, b) ==
  IF IsAbsolute(b) THEN b
  ELSE IF a = <<>> \/ a[Len(a)] = "/" THEN a \o b
  ELSE a \o <<"/">> \o b

\* The loop of posixpath.normpath over the components.
RECURSIVE NormComponents(_, _, _)
NormComponents(comps, new_comps, absolute) ==
  IF comps = <<>> THEN new_comps
  ELSE LET comp == Head(comps)
           rest == Tail(comps)
       IN IF comp = <<>> \/ comp = <<".">>
            THEN NormComponents(rest, new_comps, absolute)
          ELSE IF comp # <<"..">>
                  \/ (~absolute /\ new_comps = <<>>)
                  \/ (new_comps # <<>> /\ new_comps[Len(new_comps)] = <<"..">>)
            THEN NormComponents(rest, Append(new_comps, comp), absolute)
          ELSE IF new_comps # <<>>
            THEN NormComponents(rest, SubSeq(new_comps, 1, Len(new_comps) - 1), absolute)
          ELSE NormComponents(rest, new_comps, absolute)

RECURSIVE JoinComponents(_)
JoinComponents(comps) ==
  IF comps = <<>> THEN <<>>
  ELSE IF Len(comps) = 1 THEN comps[1]
  ELSE comps[1] \o <<"/">> \o JoinComponents(Tail(comps))

\* os.path.normpath(path)
normpath(path) ==
  LET comps == NormComponents(PathComponents(path), <<>>, IsAbsolute(path))
      joined == JoinComponents(comps)
  IN IF IsAbsolute(path) THEN <<"/">> \o joined
     ELSE IF joined = <<>> THEN <<".">> ELSE joined

\* os.path.abspath(path) of a process whose working directory is /srv.
WorkingDirectory == <<"/", "srv">>
abspath(path) == normpath(PathJoin(WorkingDirectory, path))

\* str.startswith
StartsWith(s, prefix) == Len(prefix) <= Len(s) /\ SubSeq(s, 1, Len(prefix)) = prefix

\* The arguments of the call and the file names of the <Edit> blocks.
base_tmp_dir == <<"/", "tmp">>
safe_project_name == <<"app">>
PageFile == <<"src", "/", "app", "/", "page.tsx">>
PaddedFile == <<" ", "src", "/", "Hero.tsx", " ">>
DotDotInsideFile == <<"src", "/", "..", "/", "lib.ts">>
SiblingFile == <<"..", "/", "app", "_evil", "/", "x.ts">>
OutsideFile == <<"..", "/", "other", "/", "x.ts">>
AbsoluteFile == <<"/", "etc", "/", "passwd">>
EditFilenames ==
  {PageFile, PaddedFile, DotDotInsideFile, SiblingFile, OutsideFile, AbsoluteFile}
EditBlockLists == UNION {[1..n -> EditFilenames] : n \in 0..MaxBlocks}

ErrorMessage(kind, filename) == [kind |-> kind, filename |-> filename]

SiteFrame == UNCHANGED <<fileVars, dashVars, genVars>>

\* setup_project_environment (425-601) as process_generated_site calls it
\* (612-620): the project path or None, and the results it leaves.  The
\* arguments tell how the commands and the package.json update went.
setup_project_environment(res, cna_ok, pkg_ok, install_ok, shadcn_ok) ==
  LET project_path == PathJoin(base_tmp_dir, safe_project_name)
      ran(r, name) == [r EXCEPT !.command_outputs = Append(@, name)]
      failed(r, kind) == [r EXCEPT !.error_messages = Append(@, ErrorMessage(kind, <<>>))]
      r1 == ran(res, "create-next-app scaffolding")
  IN IF ~cna_ok
       THEN [project_path |-> <<>>,
             results |-> failed([r1 EXCEPT !.cna_success = FALSE],
                                "create-next-app scaffolding failed")]
     ELSE LET r2 == [r1 EXCEPT !.cna_success = TRUE]
          IN IF ~pkg_ok
               THEN [project_path |-> <<>>,
                     results |-> failed(r2, "Failed to update package.json")]
             ELSE LET r3 == [ran(r2, "yarn install (all)") EXCEPT
                               !.npm_install_success = install_ok]
                  IN IF ~install_ok
                       THEN [project_path |-> <<>>,
                             results |-> failed(r3, "yarn install (all) failed")]
                     ELSE LET r4 == ran(r3, "shadcn init (shell)")
                              r5 == IF shadcn_ok
                                      THEN [ran(r4, "shadcn add components") EXCEPT
                                              !.shadcn_add_success = TRUE]
                                    ELSE failed([r4 EXCEPT !.shadcn_add_success = FALSE],
                                                "shadcn init failed")
                          IN [project_path |-> project_path, results |-> r5]

\* A call that goes on to the LLM files although yarn install failed.
site_setup_IgnoresInstall ==
  /\ site.pc = "start"
  /\ \E cna_ok \in BOOLEAN, pkg_ok \in BOOLEAN, install_ok \in BOOLEAN, shadcn_ok \in BOOLEAN :
       LET s == setup_project_environment(results, cna_ok, pkg_ok, install_ok, shadcn_ok)
       IN IF ~cna_ok \/ ~pkg_ok
            THEN /\ results' = s.results
                 /\ site' = [site EXCEPT !.pc = "returned"]
          ELSE /\ results' = [s.results EXCEPT
                                !.site_path = PathJoin(base_tmp_dir, safe_project_name)]
               /\ site' = [site EXCEPT !.pc = "edit",
                                       !.project_final_path =
                                          PathJoin(base_tmp_dir, safe_project_name)]
  /\ SiteFrame

\* process_generated_site from its start to the loop over the blocks
\* (604-620): it returns when the setup gave no path or a flag is false.
site_setup ==
  /\ site.pc = "start"
  /\ \E cna_ok \in BOOLEAN, pkg_ok \in BOOLEAN, install_ok \in BOOLEAN, shadcn_ok \in BOOLEAN :
       LET s == setup_project_environment(results, cna_ok, pkg_ok, install_ok, shadcn_ok)
       IN IF s.project_path = <<>>
            THEN /\ results' = s.results
                 /\ site' = [site EXCEPT !.pc = "returned"]
          ELSE IF ~s.results.cna_success \/ ~s.results.npm_install_success
            THEN /\ results' = [s.results EXCEPT !.site_path = s.project_path]
                 /\ site' = [site EXCEPT !.pc = "returned",
                                         !.project_final_path = s.project_path]
          ELSE /\ results' = [s.results EXCEPT !.site_path = s.project_path]
               /\ site' = [site EXCEPT !.pc = "edit",
                                       !.project_final_path = s.project_path]
  /\ SiteFrame

\* The path one <Edit> block is written to (651-653).
TargetPath(filename) == normpath(PathJoin(site.project_final_path, Strip(filename)))

\* One turn of the loop over the <Edit> blocks (650-663); write_ok tells
\* whether _create_file_with_content could write.
write_edit_block ==
  /\ site.pc = "edit"
  /\ site.edit_blocks # <<>>
  /\ LET filename == Strip(Head(site.edit_blocks))
         target_path == normpath(PathJoin(site.project_final_path, filename))
     IN IF ~StartsWith(target_path, abspath(site.project_final_path))
          THEN /\ results' = [results EXCEPT !.error_messages =
                                Append(@, ErrorMessage("Security risk", filename))]
               /\ site' = [site EXCEPT !.edit_blocks = Tail(@)]
        ELSE \E write_ok \in BOOLEAN :
               IF write_ok
                 THEN /\ results' = results
                      /\ site' = [site EXCEPT !.edit_blocks = Tail(@),
                                              !.written = @ \cup {target_path}]
               ELSE /\ results' =
                         [results EXCEPT !.error_messages =
                            Append(@, ErrorMessage("Error creating/writing file", filename)),
                                         !.build_success = FALSE]
                    /\ site' = [site EXCEPT !.pc = "returned"]
  /\ SiteFrame

\* From the end of the loop to the return (665-767): prettier, then yarn
\* build; returncode is that of the build, timed_out tells that it did
\* not end in its 400 seconds.
prettier_and_build ==
  /\ site.pc = "edit"
  /\ site.edit_blocks = <<>>
  /\ \E returncode \in {0, 1}, timed_out \in BOOLEAN :
       LET r1 == [results EXCEPT !.command_outputs = Append(@, "prettier")]
           r2 == IF timed_out
                   THEN [r1 EXCEPT !.command_outputs = Append(@, "yarn build (Timeout)"),
                                   !.error_messages =
                                      Append(@, ErrorMessage("yarn build timed out", <<>>))]
                 ELSE IF returncode # 0
                   THEN [r1 EXCEPT !.command_outputs = Append(@, "yarn build"),
                                   !.error_messages =
                                      Append(@, ErrorMessage("yarn build failed", <<>>))]
                 ELSE [r1 EXCEPT !.command_outputs = Append(@, "yarn build")]
       IN /\ results' = [r2 EXCEPT !.build_success = (~timed_out /\ returncode = 0)]
          /\ site' = [site EXCEPT !.pc = "returned",
                                  !.build_returncode =
                                     IF timed_out THEN <<>> ELSE <<returncode>>]
  /\ SiteFrame

NextSite ==
  \/ site_setup
  \/ write_edit_block
  \/ prettier_and_build

InitSite ==
  /\ FileIdle
  /\ DashIdle
  /\ \E edit_blocks \in EditBlockLists : site = SiteBefore(edit_blocks)
  /\ results = ResultsInit
  /\ GenIdle

SpecSite == InitSite /\ [][NextSite]_vars

\* Path target lies in the directory tree of path root: it is the root
\* or the root followed by a separator and more.
InsideTree(target, root) ==
  \/ target = root
  \/ StartsWith(target, root \o <<"/">>)

\* C27: for every <Edit> block, the file is written only if the
\* normalised target path lies inside the project directory tree, a
\* sibling directory whose name begins with the project's name being
\* outside; for a target outside, a 'Security risk' error is recorded and
\* nothing is written.
C27_NoEscape ==
  /\ [](\A target \in site.written : InsideTree(target, site.project_final_path))
  /\ [][(site.pc = "edit" /\ site.edit_blocks # <<>> /\ site' # site) =>
          LET filename == Strip(Head(site.edit_blocks))
          IN ~InsideTree(TargetPath(filename), site.project_final_path) =>
               /\ site'.written = site.written
               /\ results'.error_messages =
                    Append(results.error_messages, ErrorMessage("Security risk", filename))]_vars

\* The setup did not come through: scaffolding, the package.json update
\* or the install failed.
SetupFailed ==
  \/ ~results.cna_success
  \/ ~results.npm_install_success
  \/ \E k \in DOMAIN results.error_messages :
       results.error_messages[k].kind = "Failed to update package.json"

CommandsRun == {results.command_outputs[k] : k \in DOMAIN results.command_outputs}

\* C30: in every result dictionary, build_success is true only if
\* cna_success and npm_install_success are true and the final yarn build
\* exited with code 0; and when scaffolding, the package.json update or the
\* install failed, the function has returned with no LLM file written and
\* neither prettier nor the build run.
C30_BuildResult ==
  /\ results.build_success =>
       /\ results.cna_success
       /\ results.npm_install_success
       /\ site.build_returncode = <<0>>
       /\ site.pc = "returned"
  /\ (site.pc # "start" /\ SetupFailed) =>
       /\ site.pc = "returned"
       /\ site.written = {}
       /\ CommandsRun \cap {"prettier", "yarn build", "yarn build (Timeout)"} = {}

\* A call that wrote an LLM file and returned after a successful build.
C30_Witness ==
  /\ site.pc = "returned"
  /\ results.build_success
  /\ site.written # {}

(***************************************************************************)
(* llmaaj.py: the generation pipeline.  generate_pipeline makes one        *)
(* process_with_semaphore coroutine per row of the dataset that holds a    *)
(* question and hands them to asyncio.gather; each coroutine runs          *)
(* process_single_generation under one asyncio.Semaphore.  A coroutine     *)
(* moves at its awaits, so a step of a task is an action.                  *)
(***************************************************************************)

\* Largest number of dataset rows a run is started with.
MaxRows == 2

\* Largest retry setting a run is started with.
MaxRetries == 1

\* The kinds of dataset row (1036-1037): one with a question string, one
\* without.
RowKinds == {"question", "blank"}

\* Datasets a run is started with.
Datasets == UNION {[1..n -> RowKinds] : n \in 0..MaxRows}

\* What call_weby_v1_generate returns (weby_client.py): the record of a
\* processed stream, or the record it makes of an HTTP error.  Every key a
\* caller reads with .get is present; a missing key reads as None.
StreamRecord ==
  [error |-> None, status_code |-> 200, finish_reason |-> "stop", output |-> "code"]

HttpErrorRecord ==
  [error |-> "HTTP Error 503", status_code |-> 503, finish_reason |-> None,
   output |-> ""]

\* An exception call_weby_v1_generate lets escape.
Exceptions == {"session error"}

\* The outcomes of one awaited call_weby_v1_generate.
Returned(r) == [kind |-> "returned", value |-> r, exception |-> ""]
Raised(e) == [kind |-> "raised", value |-> StreamRecord, exception |-> e]
CallOutcomes ==
  {Returned(StreamRecord), Returned(HttpErrorRecord)} \cup {Raised(e) : e \in Exceptions}

\* The record the retry loop makes when its last attempt raised (406-411,
\* 506-511).
AllRetriesFailed(max_retries, e) ==
  [error |-> "All " \o ToString(max_retries) \o " retries failed: " \o e,
   status_code |-> 500, finish_reason |-> "error", output |-> ""]

\* The two generations of process_single_generation: of the question as
\* given (387-411) and of the enhanced question (487-511).
Generations == {"original", "enhanced"}

\* A process_with_semaphore coroutine as generate_pipeline creates it for
\* row i (1044-1050).  generation is the generation whose loop ran last, and
\* attempts the history of that loop's calls of call_weby_v1_generate:
\* "returned" or "raised", in order.
NewTask(i) ==
  [question_id |-> i, pc |-> "created", generation |-> "original", retry |-> 0,
   attempts |-> <<>>,
   generation_result |-> [g \in Generations |-> <<>>],
   result |-> <<>>]

\* A coroutine whose process_single_generation is over and left result r:
\* the locals of the call are gone.
Finished(T, r) == [NewTask(T.question_id) EXCEPT !.result = <<r>>, !.pc = "returning"]

\* Rows of the dataset that get a task (1035-1039), in order.
RECURSIVE ValidRows(_, _)
ValidRows(questions_df, i) ==
  IF i > Len(questions_df) THEN <<>>
  ELSE IF questions_df[i] = "question" THEN <<i>> \o ValidRows(questions_df, i + 1)
  ELSE ValidRows(questions_df, i + 1)

\* What process_single_generation returns: the cached result (318) or
\* result_data (596), and what process_with_semaphore returns when the
\* generation raised (1026-1031).
CachedResult(T) == [question_id |-> T.question_id, generation_error |-> <<>>, cached |-> TRUE]
ResultData(T) == [question_id |-> T.question_id, generation_error |-> <<>>, cached |-> FALSE]
ErrorResult(T, e) == [question_id |-> T.question_id, generation_error |-> <<e>>, cached |-> FALSE]

\* Where process_single_generation goes on after the loop of generation g.
AfterLoop(g) == IF g = "original" THEN "enhancement_check" ELSE "finishing"

\* The loop as it would be without its else branch: the last failure
\* leaves the result as it was.
generation_attempt_NoErrorRecord(T, outcome, max_retries) ==
  LET g == T.pc
      called == [T EXCEPT !.attempts = Append(@, outcome.kind)]
  IN IF outcome.kind = "returned"
     THEN [called EXCEPT !.generation_result[g] = <<outcome.value>>, !.pc = AfterLoop(g),
                         !.retry = 0]
     ELSE IF T.retry < max_retries
     THEN [called EXCEPT !.retry = @ + 1]
     ELSE [called EXCEPT !.pc = AfterLoop(g), !.retry = 0]

\* One iteration  for retry in range(max_retries + 1)  of the loop of the
\* generation the task is in (389-411, 489-511): the call returns and the
\* loop breaks, or it raises and the loop sleeps and goes on, or it raises
\* on the last iteration and the loop leaves the error record.
generation_attempt(T, outcome, max_retries) ==
  LET g == T.pc
      called == [T EXCEPT !.attempts = Append(@, outcome.kind)]
  IN IF outcome.kind = "returned"
     THEN [called EXCEPT !.generation_result[g] = <<outcome.value>>, !.pc = AfterLoop(g),
                         !.retry = 0]
     ELSE IF T.retry < max_retries
     THEN [called EXCEPT !.retry = @ + 1]
     ELSE [called EXCEPT
             !.generation_result[g] = <<AllRetriesFailed(max_retries, outcome.exception)>>,
             !.pc = AfterLoop(g), !.retry = 0]

GenFrame == UNCHANGED <<fileVars, dashVars, siteVars>>

\* generate_pipeline up to gather (991-1054): an empty dataset returns at
\* once; otherwise the semaphore is made and one coroutine per valid row.
create_tasks ==
  /\ pipeline.pc = "start"
  /\ LET rows == ValidRows(pipeline.questions_df, 1)
     IN IF pipeline.questions_df = <<>>
        THEN /\ pipeline' = [pipeline EXCEPT !.pc = "returned"]
             /\ UNCHANGED tasks
        ELSE /\ pipeline' = [pipeline EXCEPT !.pc = "gathering",
                                             !.semaphore = pipeline.max_concurrent]
             /\ tasks' = [k \in 1..Len(rows) |-> NewTask(rows[k])]
  /\ GenFrame

\* async with semaphore (1007): the coroutine takes a permit when one is
\* free.
acquire(t) ==
  /\ pipeline.pc = "gathering"
  /\ tasks[t].pc = "created"
  /\ pipeline.semaphore > 0
  /\ pipeline' = [pipeline EXCEPT !.semaphore = @ - 1]
  /\ tasks' = [tasks EXCEPT ![t].pc = "entered"]
  /\ GenFrame

\* process_single_generation up to its first loop (313-387): a cached
\* result is returned as it is.
enter_generation(t, cached) ==
  /\ tasks[t].pc = "entered"
  /\ tasks' = [tasks EXCEPT ![t] =
       IF cached THEN Finished(@, CachedResult(@)) ELSE [@ EXCEPT !.pc = "original"]]
  /\ UNCHANGED pipeline
  /\ GenFrame

\* One awaited call of call_weby_v1_generate and the rest of its iteration.
call_weby_v1_generate(t, outcome) ==
  /\ tasks[t].pc \in Generations
  /\ tasks' = [tasks EXCEPT ![t] = generation_attempt(@, outcome, pipeline.max_retries)]
  /\ UNCHANGED pipeline
  /\ GenFrame

\* if prompt_was_enhanced and not skip_prompt_enhancement (473).
enhancement_check(t, prompt_was_enhanced) ==
  /\ tasks[t].pc = "enhancement_check"
  /\ tasks' = [tasks EXCEPT ![t] =
       IF prompt_was_enhanced
       THEN [@ EXCEPT !.pc = "enhanced", !.generation = "enhanced", !.attempts = <<>>]
       ELSE [@ EXCEPT !.pc = "finishing"]]
  /\ UNCHANGED pipeline
  /\ GenFrame

\* process_single_generation returns result_data (596) and
\* process_with_semaphore returns it (1022).
return_result(t) ==
  /\ tasks[t].pc = "finishing"
  /\ tasks' = [tasks EXCEPT ![t] = Finished(@, ResultData(@))]
  /\ UNCHANGED pipeline
  /\ GenFrame

\* A statement of process_single_generation outside the retry loops raises:
\* process_with_semaphore returns the error result (1023-1031).
generation_raises(t, e) ==
  /\ tasks[t].pc \in {"enhancement_check", "finishing"}
  /\ tasks' = [tasks EXCEPT ![t] = Finished(@, ErrorResult(@, e))]
  /\ UNCHANGED pipeline
  /\ GenFrame

\* The permit is kept when the generation raised.
release_KeepsPermitOnError(t) ==
  /\ tasks[t].pc = "returning"
  /\ pipeline' = [pipeline EXCEPT !.semaphore =
                    IF tasks[t].result[1].generation_error = <<>> THEN @ + 1 ELSE @]
  /\ tasks' = [tasks EXCEPT ![t].pc = "done"]
  /\ GenFrame

\* The end of  async with semaphore : the permit goes back and the
\* coroutine is done.
release(t) ==
  /\ tasks[t].pc = "returning"
  /\ pipeline' = [pipeline EXCEPT !.semaphore = @ + 1]
  /\ tasks' = [tasks EXCEPT ![t].pc = "done"]
  /\ GenFrame

\* asyncio.gather(*tasks) completes when every coroutine is done, with
\* their results in the order of the tasks (1054).
gather ==
  /\ pipeline.pc = "gathering"
  /\ \A t \in DOMAIN tasks : tasks[t].pc = "done"
  /\ pipeline' = [pipeline EXCEPT !.pc = "gathered",
                    !.completed_results = [t \in DOMAIN tasks |-> tasks[t].result[1]]]
  /\ UNCHANGED tasks
  /\ GenFrame

NextGen ==
  \/ create_tasks
  \/ \E t \in DOMAIN tasks : acquire(t)
  \/ \E t \in DOMAIN tasks, cached \in BOOLEAN : enter_generation(t, cached)
  \/ \E t \in DOMAIN tasks, outcome \in CallOutcomes : call_weby_v1_generate(t, outcome)
  \/ \E t \in DOMAIN tasks, prompt_was_enhanced \in BOOLEAN :
       enhancement_check(t, prompt_was_enhanced)
  \/ \E t \in DOMAIN tasks : return_result(t)
  \/ \E t \in DOMAIN tasks, e \in Exceptions : generation_raises(t, e)
  \/ \E t \in DOMAIN tasks : release(t)
  \/ gather

\* A run of generate_pipeline: a retry setting, a concurrency setting of at
\* least 1 (the --concurrent option, default 1), a dataset.
InitGen ==
  /\ FileIdle
  /\ DashIdle
  /\ SiteIdle
  /\ \E max_retries \in 0..MaxRetries, max_concurrent \in 1..MaxRows,
        questions_df \in Datasets :
       pipeline = PipelineBefore(max_retries, max_concurrent, questions_df)
  /\ tasks = <<>>

SpecGen == InitGen /\ [][NextGen]_vars

\* The loop of generation T.generation of task record T is over.
LoopOver(T) == T.pc \in {"enhancement_check", "finishing"}

\* process_single_generation of task record T is in a retry loop or between
\* its loops and its return.
InGeneration(T) == T.pc \in Generations \/ LoopOver(T)

\* C28: bounded retry of generation.  In every call of
\* process_single_generation, the loop of a generation calls
\* call_weby_v1_generate at most max_retries + 1 times; every call but the
\* last one raised (a retry follows a raise only, and the loop stops at the
\* first call that returns); and once the loop is over the generation result
\* is not None: it is what the returning call returned, or, when all
\* max_retries + 1 calls raised, the record with status_code 500,
\* finish_reason "error" and empty output.
C28_BoundedRetry ==
  \A t \in DOMAIN tasks :
    LET T == tasks[t]
        n == Len(T.attempts)
        result == T.generation_result[T.generation]
    IN InGeneration(T) =>
         /\ n <= pipeline.max_retries + 1
         /\ \A k \in 1..(n - 1) : T.attempts[k] = "raised"
         /\ T.pc \in Generations =>
              /\ T.generation = T.pc
              /\ result = <<>>
              /\ n = T.retry
              /\ n <= pipeline.max_retries
              /\ \A k \in 1..n : T.attempts[k] = "raised"
         /\ LoopOver(T) =>
              /\ n >= 1
              /\ result # <<>>
              /\ T.attempts[n] = "returned" => result[1] \in {StreamRecord, HttpErrorRecord}
              /\ T.attempts[n] = "raised" =>
                   /\ n = pipeline.max_retries + 1
                   /\ result[1].status_code = 500
                   /\ result[1].finish_reason = "error"
                   /\ result[1].output = ""
                   /\ \E e \in Exceptions :
                        result[1] = AllRetriesFailed(pipeline.max_retries, e)

\* Two loops have ended in one run with retries allowed: one after a raise
\* and a returning retry, one after max_retries + 1 raises.
C28_Witness ==
  /\ pipeline.max_retries >= 1
  /\ \E t \in DOMAIN tasks :
       /\ LoopOver(tasks[t])
       /\ tasks[t].attempts = <<"raised", "returned">>
  /\ \E t \in DOMAIN tasks :
       /\ LoopOver(tasks[t])
       /\ Len(tasks[t].attempts) = pipeline.max_retries + 1
       /\ \A k \in 1..Len(tasks[t].attempts) : tasks[t].attempts[k] = "raised"
       /\ tasks[t].generation = "enhanced"

\* The coroutines inside  async with semaphore : they hold a permit and an
\* invocation of process_single_generation is in progress or has just ended.
InProgress ==
  {t \in DOMAIN tasks :
     tasks[t].pc \in {"entered", "original", "enhancement_check", "enhanced", "finishing",
                      "returning"}}

\* What holds of the semaphore and of the results at every moment of a run
\* of generate_pipeline.
ConcurrencyLimited ==
  /\ Cardinality(InProgress) <= pipeline.max_concurrent
  /\ pipeline.pc \in {"gathering", "gathered"} =>
       pipeline.semaphore + Cardinality(InProgress) = pipeline.max_concurrent
  /\ \A t \in DOMAIN tasks :
       /\ Len(tasks[t].result) <= 1
       /\ tasks[t].pc \in {"returning", "done"} =>
            /\ Len(tasks[t].result) = 1
            /\ tasks[t].result[1].question_id = tasks[t].question_id
  /\ pipeline.pc = "gathered" =>
       /\ InProgress = {}
       /\ pipeline.semaphore = pipeline.max_concurrent
       /\ Len(pipeline.completed_results) = Len(tasks)
       /\ \A t \in DOMAIN tasks : pipeline.completed_results[t] = tasks[t].result[1]

\* An upper bound of the steps task record T has left when every loop has
\* at most max_retries + 1 iterations.
StepsOfTask(T, max_retries) ==
  CASE T.pc = "created" -> 2 * max_retries + 8
    [] T.pc = "entered" -> 2 * max_retries + 7
    [] T.pc = "original" -> 2 * max_retries + 6 - T.retry
    [] T.pc = "enhancement_check" -> max_retries + 4
    [] T.pc = "enhanced" -> max_retries + 3 - T.retry
    [] T.pc = "finishing" -> 2
    [] T.pc = "returning" -> 1
    [] OTHER -> 0

\* The steps the tasks ts[k], ts[k+1], ... have left.
RECURSIVE StepsOfTasks(_, _, _)
StepsOfTasks(ts, k, max_retries) ==
  IF k > Len(ts) THEN 0
  ELSE StepsOfTask(ts[k], max_retries) + StepsOfTasks(ts, k + 1, max_retries)

\* The steps a run has left before gather has completed.
RunStepsLeft ==
  (IF pipeline.pc = "gathering" THEN 1 ELSE 0) + StepsOfTasks(tasks, 1, pipeline.max_retries)

\* Before gather has completed some coroutine can go on or gather can
\* complete: no coroutine waits for a permit that never comes back.
CanGoOn ==
  pipeline.pc = "gathering" =>
    \/ InProgress # {}
    \/ \E t \in DOMAIN tasks : tasks[t].pc = "created" /\ pipeline.semaphore > 0
    \/ \A t \in DOMAIN tasks : tasks[t].pc = "done"

C29_WitnessConcurrent ==
  /\ pipeline.max_concurrent = 2
  /\ Cardinality(InProgress) = 2
====
